---- MODULE Spec2Model ----
(***************************************************************************)
(* HEPunion: a union file system overlaying one read-write branch on one   *)
(* read-only branch.  The model keeps the two branches as maps from        *)
(* concrete paths to stat records, and has one action per file system      *)
(* operation of opts.c (src/unnamed/part_000) and me.c.                    *)
(*                                                                         *)
(* A path is a sequence of basenames (<<>> is the mount root); special     *)
(* files are real files of the read-write branch whose basename carries    *)
(* the ".wh." or ".me." prefix.                                            *)
(***************************************************************************)
EXTENDS Integers, Sequences, FiniteSets, TLC

VARIABLES
    ro,     \* read-only branch: concrete path -> stat
    rw,     \* read-write branch: concrete path -> stat
    now,    \* CURRENT_TIME, advanced by every mutating operation
    pre,    \* read-write branch before the last operation
    last,   \* record of the last completed operation
    dh,     \* the open directory handle (struct opendir_context and f_pos)
    calls   \* the calls in flight: position and locals of each

vars == <<ro, rw, now, pre, last, dh, calls>>

---------------------------------------------------------------------------
(* Bounds of the model *)

\* The clock starts at 1 and no mutating operation starts at MaxTime: a run
\* holds MaxTime - 1 of them
MaxTime == 3
\* Number of sub-steps of one operation that may fail at once
MaxFails == 1

\* sub-steps of one mkdir call that may fail in SpecMkdir
MaxMkdirFails == 2

---------------------------------------------------------------------------
(* Program constants *)

ENOENT == 2
EIO == 5
EACCES == 13
EEXIST == 17
EINVAL == 22
ENOTEMPTY == 39

READ_ONLY == 0
READ_WRITE == 1
READ_WRITE_COPYUP == 2

VALID_MODES_MASK == 4095
UMODE_BITS == 16

S_IFREG == 32768
S_IFDIR == 16384
S_IFMT == 61440
S_IFLNK == 40960
S_IFIFO == 4096

---------------------------------------------------------------------------
(* Bit operations on umode_t *)

RECURSIVE BitAndN(_, _, _)
BitAndN(a, b, n) ==
    IF n = 0 THEN 0
    ELSE 2 * BitAndN(a \div 2, b \div 2, n - 1) + ((a % 2) * (b % 2))

BitAnd(a, b) == BitAndN(a, b, UMODE_BITS)

\* one's complement within the width of umode_t
BitNot(a) == (2 ^ UMODE_BITS - 1) - a

\* a | b for operands with no common bit, which is how the code uses it
\* after clearing the bits of b's mask in a
BitOr(a, b) == a + b - BitAnd(a, b)

clear_mode_flags(mode) == BitAnd(mode, VALID_MODES_MASK)

is_flag_set(s, f) == f \subseteq s

---------------------------------------------------------------------------
(* Paths *)

Parent(p) == IF Len(p) = 0 THEN p ELSE SubSeq(p, 1, Len(p) - 1)
Base(p) == IF Len(p) = 0 THEN "" ELSE p[Len(p)]

HasPrefix(name, pfx) ==
    Len(name) >= Len(pfx) /\ SubSeq(name, 1, Len(pfx)) = pfx

is_me(name) == HasPrefix(name, ".me.")
is_whiteout(name) == HasPrefix(name, ".wh.")

SpecialPrefix(kind) == IF kind = "ME" THEN ".me." ELSE ".wh."

\* <rw root> || parent || "/" || prefix || name
path_to_special(path, kind) ==
    Append(Parent(path), SpecialPrefix(kind) \o Base(path))

\* basenames of the entries of directory dir on a branch
Children(fs, dir) ==
    { Base(p) : p \in { q \in DOMAIN fs : Len(q) = Len(dir) + 1 /\ Parent(q) = dir } }

IsDirMode(mode) == BitAnd(mode, S_IFMT) = S_IFDIR
IsDir(fs, p) == p \in DOMAIN fs /\ IsDirMode(fs[p].mode)

\* branch content with one path added, replaced or removed
Put(fs, p, st) == [q \in DOMAIN fs \cup {p} |-> IF q = p THEN st ELSE fs[q]]
Del(fs, p) == [q \in DOMAIN fs \ {p} |-> fs[q]]

---------------------------------------------------------------------------
(* Stat records and the primitives of the underlying file systems *)

MkStat(mode, uid, gid, atime, mtime, ctime, size) ==
    [mode |-> mode, uid |-> uid, gid |-> gid,
     atime |-> atime, mtime |-> mtime, ctime |-> ctime, size |-> size]

\* ambient identity of the caller (current_fsuid, current_fsgid)
CurrentId == [uid |-> 1000, gid |-> 100]

AttrFields == {"MODE", "UID", "GID", "ATIME", "MTIME"}

\* notify_change: the fields selected by ia_valid are taken from attr; the
\* file type of the inode is not something a mode change can alter
notify_change(st, attr, valid) ==
    [mode  |-> IF "MODE" \in valid
               THEN BitAnd(st.mode, S_IFMT) + BitAnd(attr.mode, VALID_MODES_MASK)
               ELSE st.mode,
     uid   |-> IF "UID" \in valid THEN attr.uid ELSE st.uid,
     gid   |-> IF "GID" \in valid THEN attr.gid ELSE st.gid,
     atime |-> IF "ATIME" \in valid THEN attr.atime ELSE st.atime,
     mtime |-> IF "MTIME" \in valid THEN attr.mtime ELSE st.mtime,
     ctime |-> IF "CTIME" \in valid THEN attr.ctime ELSE st.ctime,
     size  |-> st.size]

\* creat_worker: creat(2) as root on the read-write branch; an existing
\* file is truncated and keeps its attributes
creat_worker(rwfs, p, mode, F, t) ==
    IF "creat" \in F THEN [ret |-> -EIO, rw |-> rwfs]
    ELSE IF ~IsDir(rwfs, Parent(p)) THEN [ret |-> -ENOENT, rw |-> rwfs]
    ELSE IF p \in DOMAIN rwfs
         THEN [ret |-> 0, rw |-> Put(rwfs, p, [rwfs[p] EXCEPT !.size = 0])]
    ELSE [ret |-> 0,
          rw |-> Put(rwfs, p, MkStat(S_IFREG + BitAnd(mode, VALID_MODES_MASK),
                                     0, 0, t, t, t, 0))]

\* mkdir_worker: mkdir(2) on the read-write branch
mkdir_worker(rwfs, p, mode, F, t) ==
    IF "mkdir" \in F THEN [ret |-> -EIO, rw |-> rwfs]
    ELSE IF ~IsDir(rwfs, Parent(p)) THEN [ret |-> -ENOENT, rw |-> rwfs]
    ELSE IF p \in DOMAIN rwfs THEN [ret |-> -EEXIST, rw |-> rwfs]
    ELSE [ret |-> 0,
          rw |-> Put(rwfs, p, MkStat(S_IFDIR + BitAnd(mode, VALID_MODES_MASK),
                                     0, 0, t, t, t, 0))]

\* unlink(2) of a file of the read-write branch; tag names the call site
\* for failure injection
unlink(rwfs, p, tag, F) ==
    IF tag \in F THEN [ret |-> -EIO, rw |-> rwfs]
    ELSE IF p \notin DOMAIN rwfs THEN [ret |-> -ENOENT, rw |-> rwfs]
    ELSE [ret |-> 0, rw |-> Del(rwfs, p)]

\* rmdir(2) of a directory of the read-write branch
rmdir(rwfs, p, F) ==
    IF "rmdir" \in F THEN [ret |-> -EIO, rw |-> rwfs]
    ELSE IF p \notin DOMAIN rwfs THEN [ret |-> -ENOENT, rw |-> rwfs]
    ELSE IF Children(rwfs, p) # {} THEN [ret |-> -ENOTEMPTY, rw |-> rwfs]
    ELSE [ret |-> 0, rw |-> Del(rwfs, p)]

\* permission checks delegated to the host
can_remove(F) == IF "can_remove" \in F THEN -EACCES ELSE 0
can_create(F) == IF "can_create" \in F THEN -EACCES ELSE 0

---------------------------------------------------------------------------
(* Helpers of the core: path materialisation, whiteouts, copy-up *)

\* find_path: create the missing read-write directories above path
RECURSIVE find_path_from(_, _, _, _, _)
find_path_from(rwfs, rofs, path, i, t) ==
    IF i >= Len(path) THEN rwfs
    ELSE LET dir == SubSeq(path, 1, i)
             st == IF dir \in DOMAIN rofs THEN rofs[dir]
                   ELSE MkStat(S_IFDIR + 493, CurrentId.uid, CurrentId.gid, t, t, t, 0)
             nxt == IF dir \in DOMAIN rwfs THEN rwfs ELSE Put(rwfs, dir, st)
         IN find_path_from(nxt, rofs, path, i + 1, t)

find_path(rwfs, rofs, path, F, t) ==
    IF "find_path" \in F THEN [ret |-> -EIO, rw |-> rwfs]
    ELSE [ret |-> 0, rw |-> find_path_from(rwfs, rofs, path, 1, t)]

create_whiteout(rwfs, rofs, path, F, t) ==
    IF "create_whiteout" \in F THEN [ret |-> -EIO, rw |-> rwfs]
    ELSE LET dirs == find_path_from(rwfs, rofs, path, 1, t)
         IN creat_worker(dirs, path_to_special(path, "WH"), 292, {}, t)

unlink_whiteout(rwfs, path, F) ==
    LET wh == path_to_special(path, "WH")
    IN IF wh \notin DOMAIN rwfs THEN [ret |-> 0, rw |-> rwfs]
       ELSE unlink(rwfs, wh, "unlink_whiteout", F)

\* merge_attr: owner and times of the ME, alterable mode bits of the ME,
\* everything else of the data file
merge_attr(d, m) ==
    [mode  |-> (d.mode - (d.mode % (VALID_MODES_MASK + 1)))
               + (m.mode % (VALID_MODES_MASK + 1)),
     uid |-> m.uid, gid |-> m.gid,
     atime |-> m.atime, mtime |-> m.mtime, ctime |-> m.ctime,
     size |-> d.size]

\* create_copyup: materialise the read-only file on the read-write branch,
\* consuming its ME; a failure after the file was created removes it again
create_copyup(rwfs, rofs, path, F, t) ==
    LET d == rofs[path]
        me_path == path_to_special(path, "ME")
        copy(fp) ==
            LET fill(cr) ==
                    IF cr.ret < 0 THEN cr
                    ELSE IF "copyup" \in F THEN [ret |-> -EIO, rw |-> fp.rw]
                    ELSE [ret |-> 0,
                          rw |-> Del(Put(cr.rw, path,
                                         IF me_path \in DOMAIN cr.rw
                                         THEN merge_attr(d, cr.rw[me_path]) ELSE d),
                                     me_path)]
            IN IF fp.ret < 0 THEN fp
               ELSE fill(creat_worker(fp.rw, path, d.mode, F, t))
    IN copy(find_path(rwfs, rofs, path, F, t))

\* find_file: resolve a logical path to a branch
find_file(rwfs, rofs, path, flags, F, t) ==
    LET none == [br |-> "none", p |-> path]
        copied(cu) ==
            IF cu.ret < 0 THEN [ret |-> cu.ret, real |-> none, rw |-> cu.rw]
            ELSE [ret |-> READ_WRITE_COPYUP,
                  real |-> [br |-> "rw", p |-> path], rw |-> cu.rw]
    IN IF path_to_special(path, "WH") \in DOMAIN rwfs
       THEN [ret |-> -ENOENT, real |-> none, rw |-> rwfs]
       ELSE IF path \in DOMAIN rwfs /\ flags # "MUST_READ_ONLY"
       THEN [ret |-> READ_WRITE, real |-> [br |-> "rw", p |-> path], rw |-> rwfs]
       ELSE IF path \in DOMAIN rofs /\ flags \in {"ANY", "MUST_READ_ONLY"}
       THEN [ret |-> READ_ONLY, real |-> [br |-> "ro", p |-> path], rw |-> rwfs]
       ELSE IF path \in DOMAIN rofs /\ flags = "CREATE_COPYUP"
       THEN copied(create_copyup(rwfs, rofs, path, F, t))
       ELSE [ret |-> -ENOENT, real |-> none, rw |-> rwfs]

\* resolution that cannot change the branches (no copy-up requested)
Resolve(rwfs, rofs, path) == find_file(rwfs, rofs, path, "ANY", {}, 0)

\* lstat of a resolved concrete path
LstatReal(rwfs, rofs, real) ==
    LET fs == IF real.br = "rw" THEN rwfs ELSE rofs
    IN IF real.br # "none" /\ real.p \in DOMAIN fs
       THEN [ret |-> 0, st |-> fs[real.p]]
       ELSE [ret |-> -ENOENT, st |-> MkStat(0, 0, 0, 0, 0, 0, 0)]

---------------------------------------------------------------------------
(* me.c: deported metadata *)

\* create_me: create the ME file and set all of its attributes
create_me(rwfs, me_path, kstbuf, F, t) ==
    LET valid == {"MODE", "UID", "GID", "ATIME", "MTIME"}
        set_all(fd) ==
            IF fd.ret < 0 THEN fd
            ELSE IF "notify_change" \in F THEN [ret |-> -EIO, rw |-> fd.rw]
            ELSE [ret |-> 0,
                  rw |-> Put(fd.rw, me_path,
                             notify_change(fd.rw[me_path], kstbuf, valid))]
    IN set_all(creat_worker(rwfs, me_path, kstbuf.mode, F, t))

\* find_me: path of the ME file of path and its lstat
find_me(rwfs, path) ==
    LET me_path == path_to_special(path, "ME")
    IN IF me_path \in DOMAIN rwfs
       THEN [ret |-> 0, me_path |-> me_path, kstbuf |-> rwfs[me_path]]
       ELSE [ret |-> -ENOENT, me_path |-> me_path,
             kstbuf |-> MkStat(0, 0, 0, 0, 0, 0, 0)]

\* get_file_attr_worker with the ME mode merged as it is stored
get_file_attr_worker_raw(rwfs, rofs, path, real_path) ==
    LET merge(me, kstme, ls) ==
            LET kstbuf == ls.st
                me_mode == kstme.mode
                cleaned == BitAnd(kstbuf.mode, BitNot(VALID_MODES_MASK))
            IN IF ls.ret < 0 THEN ls
               ELSE IF me
               THEN [ret |-> 0,
                     st |-> [kstbuf EXCEPT !.uid = kstme.uid, !.gid = kstme.gid,
                                           !.atime = kstme.atime,
                                           !.mtime = kstme.mtime,
                                           !.ctime = kstme.ctime,
                                           !.mode = BitOr(cleaned, me_mode)]]
               ELSE [ret |-> 0, st |-> kstbuf]
        found(fm) == merge(fm.ret >= 0, fm.kstbuf, LstatReal(rwfs, rofs, real_path))
    IN found(find_me(rwfs, path))

get_file_attr_worker(rwfs, rofs, path, real_path) ==
    LET merge(me, kstme, ls) ==
            LET kstbuf == ls.st
                me_mode == clear_mode_flags(kstme.mode)
                cleaned == BitAnd(kstbuf.mode, BitNot(VALID_MODES_MASK))
            IN IF ls.ret < 0 THEN ls
               ELSE IF me
               THEN [ret |-> 0,
                     st |-> [kstbuf EXCEPT !.uid = kstme.uid, !.gid = kstme.gid,
                                           !.atime = kstme.atime,
                                           !.mtime = kstme.mtime,
                                           !.ctime = kstme.ctime,
                                           !.mode = BitOr(cleaned, me_mode)]]
               ELSE [ret |-> 0, st |-> kstbuf]
        found(fm) == merge(fm.ret >= 0, fm.kstbuf, LstatReal(rwfs, rofs, real_path))
    IN found(find_me(rwfs, path))

get_file_attr(rwfs, rofs, path) ==
    LET worker(ff) ==
            IF ff.ret < 0
            THEN [ret |-> ff.ret, st |-> MkStat(0, 0, 0, 0, 0, 0, 0)]
            ELSE get_file_attr_worker(rwfs, rofs, path, ff.real)
    IN worker(find_file(rwfs, rofs, path, "ANY", {}, 0))

\* set_me_worker that takes ia_valid as it is given
set_me_worker_unmasked(rwfs, rofs, path, real_path, attr, ia_valid, F, t) ==
    LET valid0 == ia_valid
        \* .me. does not exist: create it and fill in what the request lacks
        create(me_path, kstme) ==
            LET mode == IF "MODE" \in valid0 THEN attr.mode ELSE kstme.mode
                valid1 == valid0 \ {"MODE"}
                fill_time == ~is_flag_set(valid1, {"ATIME", "MTIME"})
                attr1 == IF fill_time
                         THEN [attr EXCEPT !.atime = kstme.atime,
                                           !.mtime = kstme.mtime]
                         ELSE attr
                valid2 == IF fill_time THEN valid1 \cup {"ATIME", "MTIME"}
                          ELSE valid1
                fill_owner == ~is_flag_set(valid2, {"UID", "GID"})
                attr2 == IF fill_owner
                         THEN [attr1 EXCEPT !.uid = kstme.uid, !.gid = kstme.gid]
                         ELSE attr1
                valid3 == IF fill_owner THEN valid2 \cup {"UID", "GID"} ELSE valid2
                change(fd) ==
                    IF fd.ret < 0 THEN fd
                    ELSE IF "notify_change" \in F THEN [ret |-> -EIO, rw |-> fd.rw]
                    ELSE [ret |-> 0,
                          rw |-> Put(fd.rw, me_path,
                                     notify_change(fd.rw[me_path], attr2, valid3))]
                creat(fp) ==
                    IF fp.ret < 0 THEN fp
                    ELSE change(creat_worker(fp.rw, me_path, mode, F, t))
            IN creat(find_path(rwfs, rofs, path, F, t))
        \* .me. exists: only change what is asked
        update(me_path) ==
            IF "open" \in F THEN [ret |-> -EIO, rw |-> rwfs]
            ELSE IF valid0 # {}
            THEN IF "notify_change" \in F THEN [ret |-> -EIO, rw |-> rwfs]
                 ELSE [ret |-> 0,
                       rw |-> Put(rwfs, me_path,
                                  notify_change(rwfs[me_path], attr, valid0))]
            ELSE [ret |-> 0, rw |-> rwfs]
        worker(fm, ls) ==
            IF fm.ret < 0
            THEN IF ls.ret < 0 THEN [ret |-> ls.ret, rw |-> rwfs]
                 ELSE create(fm.me_path, ls.st)
            ELSE update(fm.me_path)
    IN worker(find_me(rwfs, path), LstatReal(rwfs, rofs, real_path))

set_me_worker(rwfs, rofs, path, real_path, attr, ia_valid, F, t) ==
    LET valid0 == ia_valid \cap {"UID", "GID", "ATIME", "MTIME", "MODE"}
        \* .me. does not exist: create it and fill in what the request lacks
        create(me_path, kstme) ==
            LET mode == IF "MODE" \in valid0 THEN attr.mode ELSE kstme.mode
                valid1 == valid0 \ {"MODE"}
                fill_time == ~is_flag_set(valid1, {"ATIME", "MTIME"})
                attr1 == IF fill_time
                         THEN [attr EXCEPT !.atime = kstme.atime,
                                           !.mtime = kstme.mtime]
                         ELSE attr
                valid2 == IF fill_time THEN valid1 \cup {"ATIME", "MTIME"}
                          ELSE valid1
                fill_owner == ~is_flag_set(valid2, {"UID", "GID"})
                attr2 == IF fill_owner
                         THEN [attr1 EXCEPT !.uid = kstme.uid, !.gid = kstme.gid]
                         ELSE attr1
                valid3 == IF fill_owner THEN valid2 \cup {"UID", "GID"} ELSE valid2
                change(fd) ==
                    IF fd.ret < 0 THEN fd
                    ELSE IF "notify_change" \in F THEN [ret |-> -EIO, rw |-> fd.rw]
                    ELSE [ret |-> 0,
                          rw |-> Put(fd.rw, me_path,
                                     notify_change(fd.rw[me_path], attr2, valid3))]
                creat(fp) ==
                    IF fp.ret < 0 THEN fp
                    ELSE change(creat_worker(fp.rw, me_path, mode, F, t))
            IN creat(find_path(rwfs, rofs, path, F, t))
        \* .me. exists: only change what is asked
        update(me_path) ==
            IF "open" \in F THEN [ret |-> -EIO, rw |-> rwfs]
            ELSE IF valid0 # {}
            THEN IF "notify_change" \in F THEN [ret |-> -EIO, rw |-> rwfs]
                 ELSE [ret |-> 0,
                       rw |-> Put(rwfs, me_path,
                                  notify_change(rwfs[me_path], attr, valid0))]
            ELSE [ret |-> 0, rw |-> rwfs]
        worker(fm, ls) ==
            IF fm.ret < 0
            THEN IF ls.ret < 0 THEN [ret |-> ls.ret, rw |-> rwfs]
                 ELSE create(fm.me_path, ls.st)
            ELSE update(fm.me_path)
    IN worker(find_me(rwfs, path), LstatReal(rwfs, rofs, real_path))

set_me(rwfs, rofs, path, real_path, kstbuf, flags, F, t) ==
    LET v1 == IF is_flag_set(flags, {"MODE"}) THEN {"MODE"} ELSE {}
        v2 == IF is_flag_set(flags, {"TIME"}) THEN {"ATIME", "MTIME"} ELSE {}
        v3 == IF is_flag_set(flags, {"OWNER"}) THEN {"UID", "GID"} ELSE {}
    IN set_me_worker(rwfs, rofs, path, real_path, kstbuf, v1 \cup v2 \cup v3, F, t)

---------------------------------------------------------------------------
(* Helpers of the operation dispatcher *)

NoPath == [br |-> "none", p |-> <<>>]

\* is_empty_dir: emptiness over the merged view (RO + RW - whiteouts)
is_empty_dir(rwfs, rofs, path, ro_path, rw_path) ==
    LET rw_names == IF rw_path.br = "none" THEN {} ELSE Children(rwfs, rw_path.p)
        ro_names == IF ro_path.br = "none" THEN {} ELSE Children(rofs, ro_path.p)
        visible == { n \in rw_names : ~is_me(n) /\ ~is_whiteout(n) }
                   \cup { n \in ro_names : (".wh." \o n) \notin rw_names }
    IN IF visible = {} THEN 0 ELSE -ENOTEMPTY

\* unlink_rw_file: unlink the RW file; if a corresponding RO file exists,
\* also create a whiteout
unlink_rw_file(rwfs, rofs, path, real_path, F, t) ==
    LET has_ro == path \in DOMAIN rofs
        whiteout(u) ==
            IF u.ret < 0 THEN u
            ELSE IF has_ro THEN create_whiteout(u.rw, rofs, path, F, t)
            ELSE u
    IN whiteout(unlink(rwfs, real_path.p, "unlink", F))

\* unlink_copyup: delete a copy-up whose original still exists; a metadata
\* file carrying the attributes of the copy-up is recreated
unlink_copyup(rwfs, rofs, path, copyup_path, F, t) ==
    LET kstbuf == rwfs[copyup_path.p]
        recreate(u) ==
            IF u.ret < 0 THEN u
            ELSE set_me(u.rw, rofs, path, [br |-> "ro", p |-> path], kstbuf,
                        {"MODE", "TIME", "OWNER"}, F, t)
    IN recreate(unlink(rwfs, copyup_path.p, "unlink", F))

---------------------------------------------------------------------------
(* opts.c: the exported operations *)

hepunion_lookup(rwfs, rofs, path) ==
    LET entry(err) ==
            IF err < 0
            THEN IF err = -ENOENT
                 THEN [ret |-> 0, dentry |-> "negative"]
                 ELSE [ret |-> err, dentry |-> "error"]
            ELSE [ret |-> 0, dentry |-> "positive"]
    IN entry(find_file(rwfs, rofs, path, "ANY", {}, 0).ret)

hepunion_getattr(rwfs, rofs, path) == get_file_attr(rwfs, rofs, path)

\* hepunion_setattr resolving the path with a copy-up
hepunion_setattr_copyup(rwfs, rofs, path, attr, ia_valid, F, t) ==
    LET change(ff) ==
            IF ff.ret < 0 THEN [ret |-> ff.ret, rw |-> ff.rw]
            ELSE IF ff.ret = READ_WRITE \/ ff.ret = READ_WRITE_COPYUP
            THEN IF "open" \in F THEN [ret |-> -EIO, rw |-> ff.rw]
                 ELSE IF "notify_change" \in F THEN [ret |-> -EIO, rw |-> ff.rw]
                 ELSE [ret |-> 0,
                       rw |-> Put(ff.rw, ff.real.p,
                                  notify_change(ff.rw[ff.real.p], attr, ia_valid))]
            ELSE set_me_worker(rwfs, rofs, path, ff.real, attr, ia_valid, F, t)
    IN change(find_file(rwfs, rofs, path, "CREATE_COPYUP", F, t))

hepunion_setattr(rwfs, rofs, path, attr, ia_valid, F, t) ==
    LET change(ff) ==
            IF ff.ret < 0 THEN [ret |-> ff.ret, rw |-> rwfs]
            ELSE IF ff.ret = READ_WRITE \/ ff.ret = READ_WRITE_COPYUP
            THEN IF "open" \in F THEN [ret |-> -EIO, rw |-> rwfs]
                 ELSE IF "notify_change" \in F THEN [ret |-> -EIO, rw |-> rwfs]
                 ELSE [ret |-> 0,
                       rw |-> Put(rwfs, ff.real.p,
                                  notify_change(rwfs[ff.real.p], attr, ia_valid))]
            ELSE set_me_worker(rwfs, rofs, path, ff.real, attr, ia_valid, F, t)
    IN change(find_file(rwfs, rofs, path, "ANY", {}, 0))

\* hepunion_unlink that leaves no whiteout for a file of the read-only branch
hepunion_unlink_no_whiteout(rwfs, rofs, path, F, t) ==
    LET \* on RO: remove the ME file
        on_ro(fm) ==
            LET has_me == fm.ret >= 0
                whiteout(um) == um
            IN IF can_remove(F) < 0 THEN [ret |-> can_remove(F), rw |-> rwfs]
               ELSE whiteout(IF has_me
                             THEN unlink(rwfs, fm.me_path, "unlink_me", F)
                             ELSE [ret |-> 0, rw |-> rwfs])
        found(ff) ==
            IF ff.ret = READ_WRITE_COPYUP \/ ff.ret = READ_WRITE
            THEN unlink_rw_file(rwfs, rofs, path, ff.real, F, t)
            ELSE IF ff.ret = READ_ONLY THEN on_ro(find_me(rwfs, path))
            ELSE [ret |-> ff.ret, rw |-> rwfs]
    IN found(find_file(rwfs, rofs, path, "ANY", {}, 0))

hepunion_unlink(rwfs, rofs, path, F, t) ==
    LET \* on RO: remove the ME file, then create the whiteout
        on_ro(fm) ==
            LET has_me == fm.ret >= 0
                restore(cw) ==
                    IF cw.ret < 0 /\ has_me
                    THEN [ret |-> cw.ret,
                          rw |-> create_me(cw.rw, fm.me_path, fm.kstbuf, F, t).rw]
                    ELSE cw
                whiteout(um) ==
                    IF um.ret < 0 THEN um
                    ELSE restore(create_whiteout(um.rw, rofs, path, F, t))
            IN IF can_remove(F) < 0 THEN [ret |-> can_remove(F), rw |-> rwfs]
               ELSE whiteout(IF has_me
                             THEN unlink(rwfs, fm.me_path, "unlink_me", F)
                             ELSE [ret |-> 0, rw |-> rwfs])
        found(ff) ==
            IF ff.ret = READ_WRITE_COPYUP \/ ff.ret = READ_WRITE
            THEN unlink_rw_file(rwfs, rofs, path, ff.real, F, t)
            ELSE IF ff.ret = READ_ONLY THEN on_ro(find_me(rwfs, path))
            ELSE [ret |-> ff.ret, rw |-> rwfs]
    IN found(find_file(rwfs, rofs, path, "ANY", {}, 0))

hepunion_rmdir(rwfs, rofs, path, F, t) ==
    LET \* on RW: whiteout first if RO holds the directory, then rmdir
        on_rw(real_path, fro) ==
            LET has_ro == fro.ret >= 0
                \* wh_path is only filled in by create_whiteout
                undo(rd) ==
                    IF rd.ret < 0
                    THEN [ret |-> rd.ret,
                          rw |-> IF has_ro
                                 THEN unlink(rd.rw, path_to_special(path, "WH"),
                                             "unlink_wh", F).rw
                                 ELSE rd.rw]
                    ELSE rd
                remove(err, wh) ==
                    IF has_ro /\ wh.ret < 0 THEN [ret |-> err, rw |-> wh.rw]
                    ELSE undo(rmdir(wh.rw, real_path.p, F))
                whiteout(err) ==
                    IF err < 0 THEN [ret |-> -ENOTEMPTY, rw |-> rwfs]
                    ELSE remove(err, IF has_ro
                                     THEN create_whiteout(rwfs, rofs, path, F, t)
                                     ELSE [ret |-> 0, rw |-> rwfs])
            IN IF can_remove(F) < 0 THEN [ret |-> can_remove(F), rw |-> rwfs]
               ELSE whiteout(is_empty_dir(rwfs, rofs, path,
                                          IF has_ro THEN fro.real ELSE NoPath,
                                          real_path))
        \* on RO: remove the ME file, then create the whiteout
        on_ro(err, real_path, fm) ==
            LET has_me == fm.ret >= 0
                restore(cw) ==
                    IF cw.ret < 0 /\ has_me
                    THEN [ret |-> cw.ret,
                          rw |-> create_me(cw.rw, fm.me_path, fm.kstbuf, F, t).rw]
                    ELSE cw
                whiteout(um) ==
                    IF um.ret < 0 THEN um
                    ELSE restore(create_whiteout(um.rw, rofs, path, F, t))
            IN IF can_remove(F) = 0 THEN [ret |-> err, rw |-> rwfs]
               ELSE IF is_empty_dir(rwfs, rofs, path, real_path, NoPath) < 0
               THEN [ret |-> -ENOTEMPTY, rw |-> rwfs]
               ELSE whiteout(IF has_me
                             THEN unlink(rwfs, fm.me_path, "unlink_me", F)
                             ELSE [ret |-> 0, rw |-> rwfs])
        found(ff) ==
            IF ff.ret = READ_WRITE_COPYUP \/ ff.ret = READ_WRITE
            THEN on_rw(ff.real, find_file(rwfs, rofs, path, "MUST_READ_ONLY", {}, 0))
            ELSE IF ff.ret = READ_ONLY
            THEN on_ro(ff.ret, ff.real, find_me(rwfs, path))
            ELSE [ret |-> ff.ret, rw |-> rwfs]
    IN found(find_file(rwfs, rofs, path, "ANY", {}, 0))

\* hepunion_create without the test for an existing target
hepunion_create_over(rwfs, rofs, path, mode, F, t) ==
    LET own(filp) ==
            IF filp.ret < 0 THEN filp
            ELSE IF "notify_change" \in F
            THEN [ret |-> -EIO, rw |-> unlink(filp.rw, path, "unlink", F).rw]
            ELSE [ret |-> 0,
                  rw |-> unlink_whiteout(
                             Put(filp.rw, path,
                                 notify_change(filp.rw[path], CurrentId, {"UID", "GID"})),
                             path, F).rw]
        create(fp) ==
            IF fp.ret < 0 THEN fp
            ELSE IF can_create(F) < 0 THEN [ret |-> can_create(F), rw |-> fp.rw]
            ELSE own(creat_worker(fp.rw, path, mode, F, t))
    IN create(find_path(rwfs, rofs, path, F, t))

hepunion_create(rwfs, rofs, path, mode, F, t) ==
    LET own(filp) ==
            IF filp.ret < 0 THEN filp
            ELSE IF "notify_change" \in F
            THEN [ret |-> -EIO, rw |-> unlink(filp.rw, path, "unlink", F).rw]
            ELSE [ret |-> 0,
                  rw |-> unlink_whiteout(
                             Put(filp.rw, path,
                                 notify_change(filp.rw[path], CurrentId,
                                               {"UID", "GID"})),
                             path, F).rw]
        create(fp) ==
            IF fp.ret < 0 THEN fp
            ELSE IF can_create(F) < 0 THEN [ret |-> can_create(F), rw |-> fp.rw]
            ELSE own(creat_worker(fp.rw, path, mode, F, t))
    IN IF find_file(rwfs, rofs, path, "ANY", {}, 0).ret >= 0
       THEN [ret |-> -EEXIST, rw |-> rwfs]
       ELSE create(find_path(rwfs, rofs, path, F, t))

\* hepunion_open with the test of can_create inverted
hepunion_open_inverted(rwfs, rofs, path, is_write_op, F, t) ==
    LET reverted(ff) ==
            unlink_copyup(ff.rw, rofs, path, ff.real,
                          F \ {"can_create", "open"}, t).rw
        opened(ff) ==
            IF ff.ret < 0 THEN [ret |-> ff.ret, rw |-> ff.rw, origin |-> ff.ret]
            ELSE IF ff.ret = READ_WRITE_COPYUP /\ can_create(F) >= 0
            THEN [ret |-> can_create(F), rw |-> reverted(ff), origin |-> ff.ret]
            ELSE IF "open" \in F
            THEN [ret |-> -EIO,
                  rw |-> IF ff.ret = READ_WRITE_COPYUP THEN reverted(ff) ELSE ff.rw,
                  origin |-> ff.ret]
            ELSE [ret |-> 0, rw |-> ff.rw, origin |-> ff.ret]
    IN opened(find_file(rwfs, rofs, path,
                        IF is_write_op THEN "CREATE_COPYUP" ELSE "ANY", F, t))

hepunion_open(rwfs, rofs, path, is_write_op, F, t) ==
    LET reverted(ff) ==
            unlink_copyup(ff.rw, rofs, path, ff.real,
                          F \ {"can_create", "open"}, t).rw
        opened(ff) ==
            IF ff.ret < 0 THEN [ret |-> ff.ret, rw |-> ff.rw, origin |-> ff.ret]
            ELSE IF ff.ret = READ_WRITE_COPYUP /\ can_create(F) < 0
            THEN [ret |-> can_create(F), rw |-> reverted(ff), origin |-> ff.ret]
            ELSE IF "open" \in F
            THEN [ret |-> -EIO,
                  rw |-> IF ff.ret = READ_WRITE_COPYUP THEN reverted(ff) ELSE ff.rw,
                  origin |-> ff.ret]
            ELSE [ret |-> 0, rw |-> ff.rw, origin |-> ff.ret]
    IN opened(find_file(rwfs, rofs, path,
                        IF is_write_op THEN "CREATE_COPYUP" ELSE "ANY", F, t))

\* the flags of file->f_flags that hepunion_open or the open of the
\* underlying file looks at; the access mode O_RDONLY is the absence of
\* O_WRONLY and O_RDWR
OpenFlagSets ==
    { {}, {"O_TRUNC"}, {"O_APPEND"}, {"O_WRONLY"}, {"O_RDWR"},
      {"O_WRONLY", "O_TRUNC"}, {"O_RDWR", "O_APPEND"} }

is_write_op(f_flags) == f_flags \cap {"O_WRONLY", "O_RDWR"} # {}

\* open_worker_2: the open of the file at a concrete path of one branch with
\* the flags of the caller. O_TRUNC cuts a regular file to length 0 when the
\* access mode allows writing; with O_RDONLY its effect is unspecified, and
\* truncates tells whether the underlying file system applies it
open_worker_2(fs, p, f_flags, truncates, t) ==
    IF /\ "O_TRUNC" \in f_flags
       /\ ~IsDirMode(fs[p].mode)
       /\ (is_write_op(f_flags) \/ truncates)
    THEN Put(fs, p, [fs[p] EXCEPT !.size = 0, !.mtime = t, !.ctime = t])
    ELSE fs

---------------------------------------------------------------------------
(* opts.c: directory listing *)

RoRoot == "/ro"
RwRoot == "/rw"

\* the logical path as the string the code handles
RECURSIVE PathStr(_)
PathStr(p) == IF Len(p) = 0 THEN "/"
              ELSE IF Len(p) = 1 THEN "/" \o p[1]
              ELSE PathStr(Parent(p)) \o "/" \o Base(p)

\* name_to_ino is a hash of the path string; the string stands for it
name_to_ino(str) == str

RECURSIVE SetToSeq(_)
SetToSeq(S) == IF S = {} THEN <<>>
               ELSE LET n == CHOOSE n \in S : TRUE
                    IN <<n>> \o SetToSeq(S \ {n})

Reverse(sq) == [i \in 1..Len(sq) |-> sq[Len(sq) + 1 - i]]

DType(st) == IF IsDirMode(st.mode) THEN "DT_DIR" ELSE "DT_REG"

\* vfs_readdir: the entries of a directory in one of the orders the
\* underlying file system may report them
DirEntries(fs, dir, ord) ==
    LET fwd == SetToSeq(Children(fs, dir))
        sq == IF ord = "fwd" THEN fwd ELSE Reverse(fwd)
    IN [i \in 1..Len(sq) |-> [name |-> sq[i], type |-> DType(fs[Append(dir, sq[i])])]]

\* list_add: insertion right after the list head
list_add(entry, list) == <<entry>> \o list

NoCtx == [open |-> FALSE, path |-> <<>>, ro_len |-> 0, rw_len |-> 0,
          files |-> <<>>, whiteouts |-> <<>>, f_pos |-> 0]

hepunion_opendir(rwfs, rofs, path) ==
    LET context(err, rw_err, ro_err) ==
            IF err < 0 THEN [ret |-> err, ctx |-> NoCtx]
            ELSE [ret |-> 0,
                  ctx |-> [open |-> TRUE, path |-> path,
                           ro_len |-> IF ro_err >= 0
                                      THEN Len(RoRoot \o PathStr(path)) ELSE 0,
                           rw_len |-> IF rw_err >= 0
                                      THEN Len(RwRoot \o PathStr(path)) ELSE 0,
                           files |-> <<>>, whiteouts |-> <<>>, f_pos |-> 0]]
    IN context(find_file(rwfs, rofs, path, "ANY", {}, 0).ret,
               find_file(rwfs, rofs, path, "MUST_READ_WRITE", {}, 0).ret,
               find_file(rwfs, rofs, path, "MUST_READ_ONLY", {}, 0).ret)

\* complete_path: the directory part of the branch path with the branch
\* root cut off, followed by the name
complete_path(ctx, root, name) ==
    LET full == root \o PathStr(ctx.path)
    IN SubSeq(full, Len(root) + 1, Len(full)) \o name

read_rw_branch(ctx, name, d_type) ==
    IF is_me(name) THEN ctx
    ELSE IF is_whiteout(name)
    THEN IF ctx.ro_len # 0
         THEN LET namlen == Len(name) - 4
                  entry == [d_name |-> SubSeq(name, 5, 4 + namlen),
                            d_reclen |-> namlen, type |-> "", ino |-> ""]
              IN [ctx EXCEPT !.whiteouts = list_add(entry, @)]
         ELSE ctx
    ELSE LET entry == [d_name |-> name, d_reclen |-> Len(name), type |-> d_type,
                       ino |-> name_to_ino(complete_path(ctx, RwRoot, name))]
         IN [ctx EXCEPT !.files = list_add(entry, @)]

\* read_ro_branch without the search of the list of files
read_ro_branch_nodedup(ctx, name, d_type) ==
    IF \E i \in 1..Len(ctx.whiteouts) :
           Len(name) = ctx.whiteouts[i].d_reclen /\ name = ctx.whiteouts[i].d_name
    THEN ctx
    ELSE LET entry == [d_name |-> name, d_reclen |-> Len(name), type |-> d_type,
                       ino |-> name_to_ino(complete_path(ctx, RoRoot, name))]
         IN [ctx EXCEPT !.files = list_add(entry, @)]

read_ro_branch(ctx, name, d_type) ==
    IF \E i \in 1..Len(ctx.whiteouts) :
           Len(name) = ctx.whiteouts[i].d_reclen /\ name = ctx.whiteouts[i].d_name
    THEN ctx
    ELSE IF \E i \in 1..Len(ctx.files) :
           Len(name) = ctx.files[i].d_reclen /\ name = ctx.files[i].d_name
    THEN ctx
    ELSE LET entry == [d_name |-> name, d_reclen |-> Len(name), type |-> d_type,
                       ino |-> name_to_ino(complete_path(ctx, RoRoot, name))]
         IN [ctx EXCEPT !.files = list_add(entry, @)]

RECURSIVE ReadRw(_, _, _)
ReadRw(ctx, ents, i) ==
    IF i > Len(ents) THEN ctx
    ELSE ReadRw(read_rw_branch(ctx, ents[i].name, ents[i].type), ents, i + 1)

RECURSIVE ReadRo(_, _, _)
ReadRo(ctx, ents, i) ==
    IF i > Len(ents) THEN ctx
    ELSE ReadRo(read_ro_branch(ctx, ents[i].name, ents[i].type), ents, i + 1)

NoEntry == [d_name |-> "", d_reclen |-> 0, type |-> "", ino |-> ""]

\* hepunion_readdir: fill the list when it is empty, then emit the entry
\* at f_pos
hepunion_readdir(rwfs, rofs, ctx, rw_ord, ro_ord, F) ==
    LET fill == ctx.files = <<>>
        emit(c) ==
            IF c.f_pos + 1 \in 1..Len(c.files)
            THEN [ret |-> 0, filled |-> fill, emitted |-> c.files[c.f_pos + 1],
                  ctx |-> [c EXCEPT !.f_pos = @ + 1]]
            ELSE [ret |-> 0, filled |-> fill, emitted |-> NoEntry, ctx |-> c]
        read_ro(c) ==
            IF fill /\ ctx.ro_len # 0
            THEN ReadRo(c, DirEntries(rofs, ctx.path, ro_ord), 1) ELSE c
        read_rw(c) ==
            IF fill /\ ctx.rw_len # 0
            THEN ReadRw(c, DirEntries(rwfs, ctx.path, rw_ord), 1) ELSE c
    IN IF fill /\ (ctx.rw_len # 0 \/ ctx.ro_len # 0) /\ "open" \in F
       THEN [ret |-> -EIO, filled |-> FALSE, emitted |-> NoEntry,
             ctx |-> [ctx EXCEPT !.files = <<>>, !.whiteouts = <<>>]]
       ELSE emit([read_ro(read_rw(ctx)) EXCEPT !.whiteouts = <<>>])

\* the names a fresh listing of directory dir holds
Listing(rwfs, rofs, dir, rw_ord, ro_ord) ==
    LET od == hepunion_opendir(rwfs, rofs, dir)
        rd == hepunion_readdir(rwfs, rofs, od.ctx, rw_ord, ro_ord, {})
    IN IF od.ret < 0 THEN {}
       ELSE { rd.ctx.files[i].d_name : i \in 1..Len(rd.ctx.files) }

---------------------------------------------------------------------------
(* opts.c: the operations that create a name *)

\* symlink_worker: symlink(2) on the read-write branch; the link holds the
\* string it was given
symlink_worker(rwfs, target, p, F, t) ==
    IF "symlink" \in F THEN [ret |-> -EIO, rw |-> rwfs]
    ELSE IF ~IsDir(rwfs, Parent(p)) THEN [ret |-> -ENOENT, rw |-> rwfs]
    ELSE IF p \in DOMAIN rwfs THEN [ret |-> -EEXIST, rw |-> rwfs]
    ELSE [ret |-> 0,
          rw |-> Put(rwfs, p, MkStat(S_IFLNK + 511, 0, 0, t, t, t, Len(target)))]

\* link_worker: link(2) within the read-write branch; the new name is a
\* second name of the inode of the old one
link_worker(rwfs, old, p, F, t) ==
    IF "link" \in F THEN [ret |-> -EIO, rw |-> rwfs]
    ELSE IF old \notin DOMAIN rwfs \/ ~IsDir(rwfs, Parent(p))
    THEN [ret |-> -ENOENT, rw |-> rwfs]
    ELSE IF p \in DOMAIN rwfs THEN [ret |-> -EEXIST, rw |-> rwfs]
    ELSE [ret |-> 0, rw |-> Put(rwfs, p, rwfs[old])]

\* mknod_worker and mkfifo_worker: mknod(2) on the read-write branch
mknod_worker(rwfs, p, mode, F, t) ==
    IF "mknod" \in F THEN [ret |-> -EIO, rw |-> rwfs]
    ELSE IF ~IsDir(rwfs, Parent(p)) THEN [ret |-> -ENOENT, rw |-> rwfs]
    ELSE IF p \in DOMAIN rwfs THEN [ret |-> -EEXIST, rw |-> rwfs]
    ELSE [ret |-> 0, rw |-> Put(rwfs, p, MkStat(mode, 0, 0, t, t, t, 0))]

\* hide_directory_contents: a whiteout in the new read-write directory for
\* every entry of the directory of the same path on the read-only branch
RECURSIVE HideEntries(_, _, _, _)
HideEntries(rwfs, path, names, t) ==
    IF names = {} THEN rwfs
    ELSE LET n == CHOOSE n \in names : TRUE
         IN HideEntries(Put(rwfs, path_to_special(Append(path, n), "WH"),
                            MkStat(S_IFREG + 292, 0, 0, t, t, t, 0)),
                        path, names \ {n}, t)

hide_directory_contents(rwfs, rofs, path, F, t) ==
    IF ~IsDir(rofs, path) THEN [ret |-> 0, rw |-> rwfs]
    ELSE IF "hide" \in F THEN [ret |-> -EIO, rw |-> rwfs]
    ELSE [ret |-> 0, rw |-> HideEntries(rwfs, path, Children(rofs, path), t)]

hepunion_mkdir(rwfs, rofs, path, mode, F, t) ==
    LET hidden(h) ==
            IF h.ret < 0 THEN [ret |-> h.ret, rw |-> rmdir(h.rw, path, F).rw]
            ELSE [ret |-> 0, rw |-> unlink_whiteout(h.rw, path, F).rw]
        made(mk) ==
            IF mk.ret < 0 THEN mk
            ELSE hidden(hide_directory_contents(mk.rw, rofs, path, F, t))
        create(fp) ==
            IF fp.ret < 0 THEN fp
            ELSE made(mkdir_worker(fp.rw, path, BitOr(mode, S_IFDIR), F, t))
    IN IF find_file(rwfs, rofs, path, "ANY", {}, 0).ret >= 0
       THEN [ret |-> -EEXIST, rw |-> rwfs]
       ELSE IF can_create(F) < 0 THEN [ret |-> can_create(F), rw |-> rwfs]
       ELSE create(find_path(rwfs, rofs, path, F, t))

hepunion_mknod(rwfs, rofs, path, mode, F, t) ==
    LET made(mk) ==
            IF mk.ret < 0 THEN mk
            ELSE [ret |-> 0, rw |-> unlink_whiteout(mk.rw, path, F).rw]
        create(fp) ==
            IF fp.ret < 0 THEN fp
            ELSE made(mknod_worker(fp.rw, path, mode, F, t))
    IN IF find_file(rwfs, rofs, path, "ANY", {}, 0).ret >= 0
       THEN [ret |-> -EEXIST, rw |-> rwfs]
       ELSE create(find_path(rwfs, rofs, path, F, t))

hepunion_symlink(rwfs, rofs, to, symname, F, t) ==
    LET made(sl) ==
            IF sl.ret < 0 THEN sl
            ELSE [ret |-> 0, rw |-> unlink_whiteout(sl.rw, to, F).rw]
        create(fp) ==
            IF fp.ret < 0 THEN fp
            ELSE made(symlink_worker(fp.rw, symname, to, F, t))
    IN IF find_file(rwfs, rofs, to, "ANY", {}, 0).ret >= 0
       THEN [ret |-> -EEXIST, rw |-> rwfs]
       ELSE IF can_create(F) < 0 THEN [ret |-> can_create(F), rw |-> rwfs]
       ELSE create(find_path(rwfs, rofs, to, F, t))

\* the concrete path as the string handed to the workers
RealStr(real) == (IF real.br = "ro" THEN RoRoot ELSE RwRoot) \o PathStr(real.p)

NoLink == [kind |-> "none", from |-> "", to |-> ""]

\* hepunion_link; made records the worker that was called and the two
\* concrete paths it was called with
hepunion_link(rwfs, rofs, from, to, F, t) ==
    LET real_to == [br |-> "rw", p |-> to]
        made(kind, real_from, w) ==
            IF w.ret < 0 THEN [ret |-> w.ret, rw |-> w.rw, made |-> NoLink]
            ELSE [ret |-> 0, rw |-> unlink_whiteout(w.rw, to, F).rw,
                  made |-> [kind |-> kind, from |-> RealStr(real_from),
                            to |-> RealStr(real_to)]]
        create(origin, fp) ==
            IF fp.ret < 0 THEN [ret |-> fp.ret, rw |-> fp.rw, made |-> NoLink]
            ELSE IF origin.ret = READ_ONLY
            THEN made("symlink", origin.real,
                      symlink_worker(fp.rw, RealStr(origin.real), to, F, t))
            ELSE made("link", origin.real,
                      link_worker(fp.rw, origin.real.p, to, F, t))
        found(origin) ==
            IF origin.ret < 0 THEN [ret |-> origin.ret, rw |-> rwfs, made |-> NoLink]
            ELSE IF find_file(rwfs, rofs, to, "ANY", {}, 0).ret >= 0
            THEN [ret |-> -EEXIST, rw |-> rwfs, made |-> NoLink]
            ELSE IF can_create(F) < 0
            THEN [ret |-> can_create(F), rw |-> rwfs, made |-> NoLink]
            ELSE create(origin, find_path(rwfs, rofs, to, F, t))
    IN found(find_file(rwfs, rofs, from, "ANY", {}, 0))

---------------------------------------------------------------------------
(* Path buffers obtained with kmalloc by an invocation and not released
   with kfree when it returns *)

\* read_rw_branch: complete_path is released at the end only; the return
\* for an ME file comes before
read_rw_branch_live(ctx, name) == IF is_me(name) THEN 1 ELSE 0

\* read_ro_branch: complete_path is released at the end only; the returns
\* for a matching whiteout and for a matching entry come before
read_ro_branch_live(ctx, name) ==
    IF \E i \in 1..Len(ctx.whiteouts) :
           Len(name) = ctx.whiteouts[i].d_reclen /\ name = ctx.whiteouts[i].d_name
    THEN 1
    ELSE IF \E i \in 1..Len(ctx.files) :
           Len(name) = ctx.files[i].d_reclen /\ name = ctx.files[i].d_name
    THEN 1
    ELSE 0

RECURSIVE ReadRwLive(_, _, _)
ReadRwLive(ctx, ents, i) ==
    IF i > Len(ents) THEN 0
    ELSE read_rw_branch_live(ctx, ents[i].name)
         + ReadRwLive(read_rw_branch(ctx, ents[i].name, ents[i].type), ents, i + 1)

RECURSIVE ReadRoLive(_, _, _)
ReadRoLive(ctx, ents, i) ==
    IF i > Len(ents) THEN 0
    ELSE read_ro_branch_live(ctx, ents[i].name)
         + ReadRoLive(read_ro_branch(ctx, ents[i].name, ents[i].type), ents, i + 1)

\* the buffers left by the callbacks of one hepunion_readdir
hepunion_readdir_live(rwfs, rofs, ctx, rw_ord, ro_ord, F) ==
    LET ro_live(c) ==
            IF ctx.ro_len # 0
            THEN ReadRoLive(c, DirEntries(rofs, ctx.path, ro_ord), 1) ELSE 0
        rw_live(c) ==
            IF ctx.rw_len # 0
            THEN ReadRwLive(c, DirEntries(rwfs, ctx.path, rw_ord), 1) ELSE 0
        read_rw(c) ==
            IF ctx.rw_len # 0
            THEN ReadRw(c, DirEntries(rwfs, ctx.path, rw_ord), 1) ELSE c
    IN IF ctx.files # <<>> THEN 0
       ELSE IF (ctx.rw_len # 0 \/ ctx.ro_len # 0) /\ "open" \in F THEN 0
       ELSE rw_live(ctx) + ro_live(read_rw(ctx))

\* hepunion_link: real_from and real_to are released on the path that
\* returns 0 only
hepunion_link_live(ret) == IF ret = 0 THEN 0 ELSE 2

---------------------------------------------------------------------------
(* Initial layouts of the two branches *)

DirStat == MkStat(S_IFDIR + 493, 0, 0, 0, 0, 0, 0)
RoFileStat == MkStat(S_IFREG + 420, 1000, 100, 0, 0, 0, 1)
RwFileStat == MkStat(S_IFREG + 384, 1000, 100, 0, 0, 0, 1)

Layout(paths, file) ==
    [p \in paths |-> IF Len(p) <= 1 THEN DirStat ELSE file]

RoLayouts ==
    { Layout({<<>>}, RoFileStat),
      Layout({<<>>, <<"d">>, <<"d", "x">>}, RoFileStat),
      Layout({<<>>, <<"d">>, <<"d", "x">>, <<"d", ".me.x">>}, RoFileStat) }

RwLayouts ==
    { Layout({<<>>}, RwFileStat),
      Layout({<<>>, <<"d">>, <<"d", "y">>}, RwFileStat) }

\* logical paths the operations are called on
UserPaths == { <<"d">>, <<"d", "x">>, <<"d", "y">> }

\* names with a reserved prefix, which a caller may also look up or create
ReservedPaths == { <<"d", ".me.x">>, <<"d", ".wh.x">> }

InputPaths == UserPaths \cup ReservedPaths

DirPaths == { <<>>, <<"d">> }

\* attribute changes requested of setattr
UserAttr(t) == [mode |-> 384, uid |-> 1001, gid |-> 101,
                atime |-> 8, mtime |-> 9, ctime |-> t]
ValidSets == { {}, {"MODE"}, {"UID"}, {"ATIME"}, {"GID", "CTIME"},
               {"MODE", "UID", "GID", "ATIME", "MTIME"} }

\* sub-steps whose failure is injected, at most MaxFails per operation
FailSets(points) == { F \in SUBSET points : Cardinality(F) <= MaxFails }

NoStat == MkStat(0, 0, 0, 0, 0, 0, 0)
NoLast == [op |-> "none", path |-> <<>>, ret |-> 0, st |-> NoStat,
           valid |-> {}, F |-> {}, origin |-> 0, write |-> FALSE,
           filled |-> FALSE, emitted |-> NoEntry, from |-> <<>>, made |-> NoLink,
           live |-> 0]

\* a call in flight: where it stands and what it has read so far
NoCall == [pc |-> "idle", path |-> <<>>, valid |-> {}, real |-> NoPath,
           me |-> FALSE, ret |-> 0, op |-> "", F |-> {}]
NoCalls == [sa |-> NoCall, ul |-> NoCall, mk |-> NoCall, rs |-> NoCall,
            raced |-> FALSE, n |-> 0]

\* the VFS calls an operation on a name only under a directory it resolved
ParentOk(p) ==
    LET r == Resolve(rw, ro, Parent(p))
    IN r.ret >= 0 /\ IsDirMode(LstatReal(rw, ro, r.real).st.mode)

ResolvesToDir(p) ==
    LET r == Resolve(rw, ro, p)
    IN r.ret >= 0 /\ IsDirMode(LstatReal(rw, ro, r.real).st.mode)

ResolvesToFile(p) ==
    LET r == Resolve(rw, ro, p)
    IN r.ret >= 0 /\ ~IsDirMode(LstatReal(rw, ro, r.real).st.mode)

\* lookup and getattr leave both branches and the handle as they are: a run
\* with one of them in the middle has the effect of the run without it, so
\* the other operations are explored from the states they do not end in
Settled == last.op \notin {"lookup", "getattr"}

Init ==
    /\ ro \in RoLayouts
    /\ rw \in RwLayouts
    /\ (<<"d">> \in DOMAIN ro \/ <<"d">> \in DOMAIN rw)
    /\ now = 1
    /\ pre = rw
    /\ last = NoLast
    /\ dh = NoCtx
    /\ calls = NoCalls

---------------------------------------------------------------------------
(* Actions: one per operation *)

Lookup(p) ==
    /\ Settled
    /\ ParentOk(p)
    /\ LET done(r) ==
               last' = [NoLast EXCEPT !.op = "lookup", !.path = p, !.ret = r.ret]
       IN done(hepunion_lookup(rw, ro, p))
    /\ pre' = rw
    /\ UNCHANGED <<calls, ro, rw, now, dh>>

Getattr(p) ==
    /\ Settled
    /\ ParentOk(p)
    /\ LET done(r) ==
               last' = [NoLast EXCEPT !.op = "getattr", !.path = p, !.ret = r.ret,
                                      !.st = r.st]
       IN done(hepunion_getattr(rw, ro, p))
    /\ pre' = rw
    /\ UNCHANGED <<calls, ro, rw, now, dh>>

Setattr(p, valid, F) ==
    /\ now < MaxTime
    /\ Settled
    /\ ParentOk(p)
    /\ LET done(r) ==
               /\ rw' = r.rw
               /\ last' = [NoLast EXCEPT !.op = "setattr", !.path = p, !.ret = r.ret,
                                         !.valid = valid, !.F = F]
       IN done(hepunion_setattr(rw, ro, p, UserAttr(now), valid, F, now))
    /\ pre' = rw
    /\ now' = now + 1
    /\ UNCHANGED <<calls, ro, dh>>

Unlink(p, F) ==
    /\ now < MaxTime
    /\ Settled
    /\ ParentOk(p)
    /\ ~ResolvesToDir(p)
    /\ LET done(r) ==
               /\ rw' = r.rw
               /\ last' = [NoLast EXCEPT !.op = "unlink", !.path = p, !.ret = r.ret,
                                         !.F = F]
       IN done(hepunion_unlink(rw, ro, p, F, now))
    /\ pre' = rw
    /\ now' = now + 1
    /\ UNCHANGED <<calls, ro, dh>>

Rmdir(p, F) ==
    /\ now < MaxTime
    /\ Settled
    /\ ParentOk(p)
    /\ ~ResolvesToFile(p)
    /\ LET done(r) ==
               /\ rw' = r.rw
               /\ last' = [NoLast EXCEPT !.op = "rmdir", !.path = p, !.ret = r.ret,
                                         !.F = F]
       IN done(hepunion_rmdir(rw, ro, p, F, now))
    /\ pre' = rw
    /\ now' = now + 1
    /\ UNCHANGED <<calls, ro, dh>>

Create(p, F) ==
    /\ now < MaxTime
    /\ Settled
    /\ ParentOk(p)
    /\ LET done(r) ==
               /\ rw' = r.rw
               /\ last' = [NoLast EXCEPT !.op = "create", !.path = p, !.ret = r.ret,
                                         !.F = F]
       IN done(hepunion_create(rw, ro, p, 420, F, now))
    /\ pre' = rw
    /\ now' = now + 1
    /\ UNCHANGED <<calls, ro, dh>>

\* hepunion_open with the flags of the caller: the resolution and the
\* copy-up, then the open of the concrete file that was found
OpenWith(p, f_flags, truncates, F) ==
    /\ now < MaxTime
    /\ Settled
    /\ ParentOk(p)
    /\ ResolvesToFile(p)
    /\ LET done(r) ==
               /\ rw' = IF r.ret = 0 /\ r.origin # READ_ONLY
                        THEN open_worker_2(r.rw, p, f_flags, truncates, now)
                        ELSE r.rw
               /\ ro' = IF r.ret = 0 /\ r.origin = READ_ONLY
                        THEN open_worker_2(ro, p, f_flags, truncates, now)
                        ELSE ro
               /\ last' = [NoLast EXCEPT !.op = "open", !.path = p, !.ret = r.ret,
                                         !.F = F, !.origin = r.origin,
                                         !.write = is_write_op(f_flags)]
       IN done(hepunion_open(rw, ro, p, is_write_op(f_flags), F, now))
    /\ pre' = rw
    /\ now' = now + 1
    /\ UNCHANGED <<calls, dh>>

\* open for reading or for writing, with no other flag
Open(p, is_write_op_, F) ==
    OpenWith(p, IF is_write_op_ THEN {"O_WRONLY"} ELSE {}, FALSE, F)

Mkdir(p, F) ==
    /\ now < MaxTime
    /\ Settled
    /\ ParentOk(p)
    /\ LET done(r) ==
               /\ rw' = r.rw
               /\ last' = [NoLast EXCEPT !.op = "mkdir", !.path = p, !.ret = r.ret,
                                         !.F = F]
       IN done(hepunion_mkdir(rw, ro, p, 493, F, now))
    /\ pre' = rw
    /\ now' = now + 1
    /\ UNCHANGED <<calls, ro, dh>>

Mknod(p, F) ==
    /\ now < MaxTime
    /\ Settled
    /\ ParentOk(p)
    /\ LET done(r) ==
               /\ rw' = r.rw
               /\ last' = [NoLast EXCEPT !.op = "mknod", !.path = p, !.ret = r.ret,
                                         !.F = F]
       IN done(hepunion_mknod(rw, ro, p, S_IFIFO + 420, F, now))
    /\ pre' = rw
    /\ now' = now + 1
    /\ UNCHANGED <<calls, ro, dh>>

Symlink(p, F) ==
    /\ now < MaxTime
    /\ Settled
    /\ ParentOk(p)
    /\ LET done(r) ==
               /\ rw' = r.rw
               /\ last' = [NoLast EXCEPT !.op = "symlink", !.path = p, !.ret = r.ret,
                                         !.F = F]
       IN done(hepunion_symlink(rw, ro, p, "/elsewhere", F, now))
    /\ pre' = rw
    /\ now' = now + 1
    /\ UNCHANGED <<calls, ro, dh>>

\* the VFS refuses to link a directory before it calls the operation
Link(from, p, F) ==
    /\ now < MaxTime
    /\ Settled
    /\ ParentOk(from)
    /\ ResolvesToFile(from)
    /\ ParentOk(p)
    /\ LET done(r) ==
               /\ rw' = r.rw
               /\ last' = [NoLast EXCEPT !.op = "link", !.path = p, !.ret = r.ret,
                                         !.F = F, !.from = from, !.made = r.made,
                                         !.live = hepunion_link_live(r.ret)]
       IN done(hepunion_link(rw, ro, from, p, F, now))
    /\ pre' = rw
    /\ now' = now + 1
    /\ UNCHANGED <<calls, ro, dh>>

Opendir(d) ==
    /\ ~dh.open
    /\ ResolvesToDir(d)
    /\ LET done(r) ==
               /\ dh' = r.ctx
               /\ last' = [NoLast EXCEPT !.op = "opendir", !.path = d, !.ret = r.ret]
       IN done(hepunion_opendir(rw, ro, d))
    /\ pre' = rw
    /\ UNCHANGED <<calls, ro, rw, now>>

Readdir(rw_ord, ro_ord, F) ==
    /\ dh.open
    /\ LET done(r) ==
               /\ dh' = r.ctx
               /\ last' = [NoLast EXCEPT !.op = "readdir", !.path = dh.path,
                                         !.ret = r.ret, !.F = F,
                                         !.filled = r.filled, !.emitted = r.emitted,
                                         !.live = hepunion_readdir_live(
                                                      rw, ro, dh, rw_ord, ro_ord, F)]
       IN done(hepunion_readdir(rw, ro, dh, rw_ord, ro_ord, F))
    /\ pre' = rw
    /\ UNCHANGED <<calls, ro, rw, now>>

Closedir ==
    /\ dh.open
    /\ dh' = NoCtx
    /\ last' = [NoLast EXCEPT !.op = "closedir", !.path = dh.path]
    /\ pre' = rw
    /\ UNCHANGED <<calls, ro, rw, now>>

SetattrFails == {"find_path", "creat", "notify_change", "open"}
UnlinkFails == {"can_remove", "unlink", "unlink_me", "create_whiteout", "creat",
                "notify_change"}
RmdirFails == {"can_remove", "rmdir", "unlink_wh", "unlink_me", "create_whiteout",
               "creat", "notify_change"}
CreateFails == {"find_path", "can_create", "creat", "notify_change", "unlink",
                "unlink_whiteout"}
OpenFails == {"find_path", "creat", "copyup", "can_create", "open", "unlink",
              "notify_change"}

Mutate ==
    \/ \E p \in UserPaths, v \in ValidSets, F \in FailSets(SetattrFails) :
          Setattr(p, v, F)
    \/ \E p \in UserPaths, F \in FailSets(UnlinkFails) : Unlink(p, F)
    \/ \E p \in UserPaths, F \in FailSets(RmdirFails) : Rmdir(p, F)
    \/ \E p \in InputPaths, F \in FailSets(CreateFails) : Create(p, F)
    \/ \E p \in UserPaths, w \in BOOLEAN, F \in FailSets(OpenFails) : Open(p, w, F)

Observe ==
    \/ \E p \in InputPaths : Lookup(p)
    \/ \E p \in InputPaths : Getattr(p)

List ==
    \/ \E d \in DirPaths : Opendir(d)
    \/ \E ord \in {"fwd", "rev"}, F \in FailSets({"open"}) : Readdir(ord, ord, F)
    \/ Closedir

\* the operations on paths
Next == Mutate \/ Observe

Spec == Init /\ [][Next]_vars

\* the operations on paths interleaved with those on a directory handle
NextDir == Mutate \/ List

SpecDir == Init /\ [][NextDir]_vars

MkdirFails == {"can_create", "find_path", "mkdir", "hide", "rmdir", "unlink_whiteout"}
MknodFails == {"find_path", "mknod", "unlink_whiteout"}
SymlinkFails == {"can_create", "find_path", "symlink", "unlink_whiteout"}
LinkFails == {"can_create", "find_path", "symlink", "link", "unlink_whiteout"}
LinkSources == { <<"d", "x">>, <<"d", "y">> }

\* the operations that create a name
Make ==
    \/ \E p \in InputPaths, F \in FailSets(CreateFails) : Create(p, F)
    \/ \E p \in InputPaths, F \in FailSets(MkdirFails) : Mkdir(p, F)
    \/ \E p \in InputPaths, F \in FailSets(MknodFails) : Mknod(p, F)
    \/ \E p \in InputPaths, F \in FailSets(SymlinkFails) : Symlink(p, F)
    \/ \E from \in LinkSources, p \in InputPaths, F \in FailSets(LinkFails) :
          Link(from, p, F)

\* the operations that remove a name
Remove ==
    \/ \E p \in UserPaths, F \in FailSets(UnlinkFails) : Unlink(p, F)
    \/ \E p \in UserPaths, F \in FailSets(RmdirFails) : Rmdir(p, F)

\* creation and removal of names, and what lookup and getattr see of them
NextMake == Make \/ Remove \/ Observe

SpecMake == Init /\ [][NextMake]_vars

\* the creating operations with the host denying the creation: mknod is
\* called in that situation as well, although no step of it can fail that way
MknodDenied == MknodFails \cup {"can_create"}

NextPerm ==
    \/ \E p \in InputPaths, F \in FailSets(CreateFails) : Create(p, F)
    \/ \E p \in InputPaths, F \in FailSets(MkdirFails) : Mkdir(p, F)
    \/ \E p \in InputPaths, F \in FailSets(MknodDenied) : Mknod(p, F)
    \/ \E p \in InputPaths, F \in FailSets(SymlinkFails) : Symlink(p, F)
    \/ \E from \in LinkSources, p \in InputPaths, F \in FailSets(LinkFails) :
          Link(from, p, F)
    \/ Remove
    \/ Observe

SpecPerm == Init /\ [][NextPerm]_vars

\* every operation on paths and on a directory handle, open with each set
\* of flags
NextOpen ==
    \/ Make
    \/ Remove
    \/ \E p \in UserPaths, v \in ValidSets, F \in FailSets(SetattrFails) :
          Setattr(p, v, F)
    \/ \E p \in UserPaths, f_flags \in OpenFlagSets, truncates \in BOOLEAN,
          F \in FailSets(OpenFails) : OpenWith(p, f_flags, truncates, F)
    \/ List

\* the read-only branch holds a file, the read-write branch may hold another
InitOpen ==
    /\ Init
    /\ <<"d", "x">> \in DOMAIN ro
    /\ <<"d", ".me.x">> \notin DOMAIN ro

SpecOpen == InitOpen /\ [][NextOpen]_vars

---------------------------------------------------------------------------
(* me.c called on its own: the writers of ME files *)

\* stats handed to create_me and set_me
MeModes == { S_IFREG + 384, S_IFDIR + 493 }
MeOwners == { [uid |-> 0, gid |-> 0], [uid |-> 1001, gid |-> 101] }
MeStats ==
    { MkStat(m, o.uid, o.gid, 8, 9, c, 0) :
        m \in MeModes, o \in MeOwners, c \in {0, 7} }

MePaths == { <<"d">>, <<"d", "x">> }
MeFlags == SUBSET {"MODE", "TIME", "OWNER"}

CreateMe(p, kstbuf, F) ==
    /\ now < MaxTime
    /\ Settled
    /\ LET done(r) ==
               /\ rw' = r.rw
               /\ last' = [NoLast EXCEPT !.op = "create_me", !.path = p,
                                         !.ret = r.ret, !.st = kstbuf, !.F = F]
       IN done(create_me(rw, path_to_special(p, "ME"), kstbuf, F, now))
    /\ pre' = rw
    /\ now' = now + 1
    /\ UNCHANGED <<calls, ro, dh>>

\* set_me is called on a path that resolves to the read-only branch
SetMe(p, kstbuf, flags, F) ==
    /\ now < MaxTime
    /\ Settled
    /\ Resolve(rw, ro, p).ret = READ_ONLY
    /\ LET done(r) ==
               /\ rw' = r.rw
               /\ last' = [NoLast EXCEPT !.op = "set_me", !.path = p,
                                         !.ret = r.ret, !.st = kstbuf,
                                         !.valid = flags, !.F = F]
       IN done(set_me(rw, ro, p, [br |-> "ro", p |-> p], kstbuf, flags, F, now))
    /\ pre' = rw
    /\ now' = now + 1
    /\ UNCHANGED <<calls, ro, dh>>

CreateMeFails == {"creat", "notify_change"}
SetMeFails == {"find_path", "creat", "notify_change", "open"}

MeWriters ==
    \/ \E p \in MePaths, s \in MeStats, F \in FailSets(CreateMeFails) :
          CreateMe(p, s, F)
    \/ \E p \in MePaths, s \in MeStats, fl \in MeFlags, F \in FailSets(SetMeFails) :
          SetMe(p, s, fl, F)

\* the writers of ME files, and what lookup and getattr see afterwards
NextMe == MeWriters \/ Observe

SpecMe == Init /\ [][NextMe]_vars

---------------------------------------------------------------------------
(* Calls in flight: setattr and unlink step by step.  Each step is one    *)
(* call into the underlying file system; between two steps of a call the  *)
(* other call may run.  will_use_buffers takes no lock against another    *)
(* operation, so nothing orders the steps of two calls.                   *)

MaxCalls == 3

RacePaths == { <<"d", "x">>, <<"d", "y">> }
RaceValid == { {"MODE"}, {"UID", "GID"} }

InFlight(c) == c.pc \notin {"idle", "done"}

\* set_me_worker, lines 246-258: what notify_change is given for a new ME
fill_attr(attr, valid0, kstme) ==
    LET valid1 == valid0 \ {"MODE"}
        fill_time == ~is_flag_set(valid1, {"ATIME", "MTIME"})
        attr1 == IF fill_time
                 THEN [attr EXCEPT !.atime = kstme.atime, !.mtime = kstme.mtime]
                 ELSE attr
        valid2 == IF fill_time THEN valid1 \cup {"ATIME", "MTIME"} ELSE valid1
        fill_owner == ~is_flag_set(valid2, {"UID", "GID"})
    IN [attr  |-> IF fill_owner
                  THEN [attr1 EXCEPT !.uid = kstme.uid, !.gid = kstme.gid]
                  ELSE attr1,
        valid |-> IF fill_owner THEN valid2 \cup {"UID", "GID"} ELSE valid2]

\* the call returns: its slot keeps the result
SaDone(r) ==
    /\ calls' = [calls EXCEPT !.sa.pc = "done", !.sa.ret = r]
    /\ last' = [NoLast EXCEPT !.op = "setattr", !.path = calls.sa.path,
                              !.ret = r, !.valid = calls.sa.valid]

UlDone(r) ==
    /\ calls' = [calls EXCEPT !.ul.pc = "done", !.ul.ret = r]
    /\ last' = [NoLast EXCEPT !.op = "unlink", !.path = calls.ul.path, !.ret = r]

\* a call enters; one that enters while nothing is in flight starts afresh
SetattrBegin(p, valid) ==
    /\ calls.n < MaxCalls
    /\ ~InFlight(calls.sa)
    /\ ParentOk(p)
    /\ IF InFlight(calls.ul)
       THEN /\ calls.sa.pc = "idle"
            /\ calls' = [calls EXCEPT !.sa = [NoCall EXCEPT !.pc = "find_file",
                                                            !.path = p,
                                                            !.valid = valid],
                                      !.raced = TRUE, !.n = @ + 1]
            /\ pre' = pre
       ELSE /\ calls' = [NoCalls EXCEPT !.sa = [NoCall EXCEPT !.pc = "find_file",
                                                              !.path = p,
                                                              !.valid = valid],
                                        !.n = calls.n + 1]
            /\ pre' = rw
    /\ UNCHANGED <<ro, rw, now, last, dh>>

UnlinkBegin(p) ==
    /\ calls.n < MaxCalls
    /\ ~InFlight(calls.ul)
    /\ ParentOk(p)
    /\ ~ResolvesToDir(p)
    /\ IF InFlight(calls.sa)
       THEN /\ calls.ul.pc = "idle"
            /\ calls' = [calls EXCEPT !.ul = [NoCall EXCEPT !.pc = "find_file",
                                                            !.path = p],
                                      !.raced = TRUE, !.n = @ + 1]
            /\ pre' = pre
       ELSE /\ calls' = [NoCalls EXCEPT !.ul = [NoCall EXCEPT !.pc = "find_file",
                                                              !.path = p],
                                        !.n = calls.n + 1]
            /\ pre' = rw
    /\ UNCHANGED <<ro, rw, now, last, dh>>

\* hepunion_setattr, line 1233: find_file
SaFindFile ==
    /\ calls.sa.pc = "find_file"
    /\ LET found(ff) ==
               IF ff.ret < 0 THEN SaDone(ff.ret)
               ELSE /\ calls' = [calls EXCEPT
                                   !.sa.pc = IF ff.ret = READ_ONLY THEN "find_me"
                                             ELSE "change_rw",
                                   !.sa.real = ff.real]
                    /\ last' = last
       IN found(find_file(rw, ro, calls.sa.path, "ANY", {}, 0))
    /\ UNCHANGED <<ro, rw, now, pre, dh>>

\* hepunion_setattr, lines 1240-1256: the file is on the read-write branch
SaChangeRw ==
    /\ calls.sa.pc = "change_rw"
    /\ IF calls.sa.real.p \in DOMAIN rw
       THEN /\ rw' = Put(rw, calls.sa.real.p,
                         notify_change(rw[calls.sa.real.p], UserAttr(now),
                                       calls.sa.valid))
            /\ SaDone(0)
       ELSE /\ rw' = rw
            /\ SaDone(-ENOENT)
    /\ UNCHANGED <<ro, now, pre, dh>>

\* set_me_worker, lines 217-225: find_me, then lstat of the read-only file
SaFindMe ==
    /\ calls.sa.pc = "find_me"
    /\ calls' = [calls EXCEPT
                   !.sa.me = find_me(rw, calls.sa.path).ret >= 0,
                   !.sa.pc = IF find_me(rw, calls.sa.path).ret >= 0
                             THEN "open" ELSE "find_path"]
    /\ UNCHANGED <<ro, rw, now, pre, last, dh>>

\* set_me_worker, line 228: find_path
SaFindPath ==
    /\ calls.sa.pc = "find_path"
    /\ rw' = find_path(rw, ro, calls.sa.path, {}, now).rw
    /\ calls' = [calls EXCEPT !.sa.pc = "creat"]
    /\ UNCHANGED <<ro, now, pre, last, dh>>

\* set_me_worker, lines 234-241: creat_worker of the ME file
SaCreat ==
    /\ calls.sa.pc = "creat"
    /\ LET kstme == ro[calls.sa.real.p]
           mode == IF "MODE" \in calls.sa.valid THEN UserAttr(now).mode
                   ELSE kstme.mode
           made(fd) ==
               IF fd.ret < 0
               THEN rw' = rw /\ SaDone(fd.ret)
               ELSE /\ rw' = fd.rw
                    /\ calls' = [calls EXCEPT !.sa.pc = "notify_change"]
                    /\ last' = last
       IN made(creat_worker(rw, path_to_special(calls.sa.path, "ME"), mode, {}, now))
    /\ UNCHANGED <<ro, now, pre, dh>>

\* set_me_worker, lines 243-264: notify_change on the file just created; a
\* file unlinked in between is changed without any name left to show it
SaNotify ==
    /\ calls.sa.pc = "notify_change"
    /\ LET me_path == path_to_special(calls.sa.path, "ME")
           fa == fill_attr(UserAttr(now), calls.sa.valid, ro[calls.sa.real.p])
       IN rw' = IF me_path \in DOMAIN rw
                THEN Put(rw, me_path, notify_change(rw[me_path], fa.attr, fa.valid))
                ELSE rw
    /\ SaDone(0)
    /\ UNCHANGED <<ro, now, pre, dh>>

\* set_me_worker, lines 267-271: open_worker of the ME file found
SaOpen ==
    /\ calls.sa.pc = "open"
    /\ IF path_to_special(calls.sa.path, "ME") \in DOMAIN rw
       THEN /\ calls' = [calls EXCEPT !.sa.pc = "change"]
            /\ last' = last
       ELSE SaDone(-ENOENT)
    /\ UNCHANGED <<ro, rw, now, pre, dh>>

\* set_me_worker, lines 273-286: notify_change on the open ME file
SaChange ==
    /\ calls.sa.pc = "change"
    /\ LET me_path == path_to_special(calls.sa.path, "ME")
       IN rw' = IF me_path \in DOMAIN rw /\ calls.sa.valid # {}
                THEN Put(rw, me_path,
                         notify_change(rw[me_path], UserAttr(now), calls.sa.valid))
                ELSE rw
    /\ SaDone(0)
    /\ UNCHANGED <<ro, now, pre, dh>>

\* hepunion_unlink, line 1386: find_file
UlFindFile ==
    /\ calls.ul.pc = "find_file"
    /\ LET found(ff) ==
               IF ff.ret < 0 THEN UlDone(ff.ret)
               ELSE /\ calls' = [calls EXCEPT
                                   !.ul.pc = IF ff.ret = READ_ONLY THEN "find_me"
                                             ELSE "unlink_rw",
                                   !.ul.real = ff.real]
                    /\ last' = last
       IN found(find_file(rw, ro, calls.ul.path, "ANY", {}, 0))
    /\ UNCHANGED <<ro, rw, now, pre, dh>>

\* hepunion_unlink, lines 1390-1392: unlink_rw_file
UlUnlinkRw ==
    /\ calls.ul.pc = "unlink_rw"
    /\ LET done(r) == rw' = r.rw /\ UlDone(r.ret)
       IN done(unlink_rw_file(rw, ro, calls.ul.path, calls.ul.real, {}, now))
    /\ UNCHANGED <<ro, now, pre, dh>>

\* hepunion_unlink, lines 1397-1403: can_remove, then find_me
UlFindMe ==
    /\ calls.ul.pc = "find_me"
    /\ calls' = [calls EXCEPT
                   !.ul.me = find_me(rw, calls.ul.path).ret >= 0,
                   !.ul.pc = IF find_me(rw, calls.ul.path).ret >= 0
                             THEN "unlink_me" ELSE "create_whiteout"]
    /\ UNCHANGED <<ro, rw, now, pre, last, dh>>

\* hepunion_unlink, lines 1404-1409: unlink of the ME file found
UlUnlinkMe ==
    /\ calls.ul.pc = "unlink_me"
    /\ LET gone(u) ==
               IF u.ret < 0
               THEN rw' = rw /\ UlDone(u.ret)
               ELSE /\ rw' = u.rw
                    /\ calls' = [calls EXCEPT !.ul.pc = "create_whiteout"]
                    /\ last' = last
       IN gone(unlink(rw, path_to_special(calls.ul.path, "ME"), "unlink_me", {}))
    /\ UNCHANGED <<ro, now, pre, dh>>

\* hepunion_unlink, lines 1412-1416: create_whiteout
UlWhiteout ==
    /\ calls.ul.pc = "create_whiteout"
    /\ LET done(r) == rw' = r.rw /\ UlDone(r.ret)
       IN done(create_whiteout(rw, ro, calls.ul.path, {}, now))
    /\ UNCHANGED <<ro, now, pre, dh>>

SetattrCall ==
    \/ \E p \in RacePaths, v \in RaceValid : SetattrBegin(p, v)
    \/ SaFindFile
    \/ SaChangeRw
    \/ SaFindMe
    \/ SaFindPath
    \/ SaCreat
    \/ SaNotify
    \/ SaOpen
    \/ SaChange

UnlinkCall ==
    \/ \E p \in RacePaths : UnlinkBegin(p)
    \/ UlFindFile
    \/ UlUnlinkRw
    \/ UlFindMe
    \/ UlUnlinkMe
    \/ UlWhiteout

\* setattr and unlink running against each other
NextRace == SetattrCall \/ UnlinkCall

SpecRace == Init /\ [][NextRace]_vars

\* hepunion_getattr called while a setattr is in flight: find_file, find_me
\* and lstat run between two steps of the setattr
GetattrCall(p) ==
    /\ InFlight(calls.sa)
    /\ ParentOk(p)
    /\ LET done(r) ==
               last' = [NoLast EXCEPT !.op = "getattr", !.path = p, !.ret = r.ret,
                                      !.st = r.st]
       IN done(hepunion_getattr(rw, ro, p))
    /\ UNCHANGED <<calls, ro, rw, now, pre, dh>>

\* setattr with getattr running against it
NextGetattr ==
    \/ SetattrCall
    \/ \E p \in RacePaths : GetattrCall(p)

SpecGetattr == Init /\ [][NextGetattr]_vars

---------------------------------------------------------------------------
(* Directories and their removal: layouts in which the directory is empty  *)
(* on one branch or on both                                                *)

RoDirLayouts ==
    { Layout({<<>>}, RoFileStat),
      Layout({<<>>, <<"d">>}, RoFileStat),
      Layout({<<>>, <<"d">>, <<"d", "x">>}, RoFileStat) }

RwDirLayouts ==
    { Layout({<<>>}, RwFileStat),
      Layout({<<>>, <<"d">>}, RwFileStat),
      Layout({<<>>, <<"d">>, <<"d", "y">>}, RwFileStat) }

InitDirs ==
    /\ ro \in RoDirLayouts
    /\ rw \in RwDirLayouts
    /\ (<<"d">> \in DOMAIN ro \/ <<"d">> \in DOMAIN rw)
    /\ now = 1
    /\ pre = rw
    /\ last = NoLast
    /\ dh = NoCtx
    /\ calls = NoCalls

\* rmdir, and the operations that empty a directory or give it an ME file
NextRmdir ==
    \/ \E p \in UserPaths, F \in FailSets(RmdirFails) : Rmdir(p, F)
    \/ \E p \in UserPaths, v \in ValidSets, F \in FailSets(SetattrFails) :
          Setattr(p, v, F)
    \/ \E p \in UserPaths, F \in FailSets(UnlinkFails) : Unlink(p, F)
    \/ Observe

SpecRmdir == InitDirs /\ [][NextRmdir]_vars

---------------------------------------------------------------------------
(* Directories made again: layouts in which the read-write branch holds    *)
(* the whiteout of a directory the read-only branch still has              *)

WhStat == MkStat(S_IFREG + 292, 0, 0, 0, 0, 0, 0)

RoDeletedLayouts ==
    { Layout({<<>>, <<"d">>}, RoFileStat),
      Layout({<<>>, <<"d">>, <<"d", "x">>}, RoFileStat),
      Layout({<<>>, <<"d">>, <<"d", "x">>, <<"d", "y">>}, RoFileStat) }

RwDeletedLayouts ==
    { Layout({<<>>}, RwFileStat),
      Put(Layout({<<>>}, RwFileStat), <<".wh.d">>, WhStat) }

InitDeleted ==
    /\ ro \in RoDeletedLayouts
    /\ rw \in RwDeletedLayouts
    /\ now = 1
    /\ pre = rw
    /\ last = NoLast
    /\ dh = NoCtx
    /\ calls = NoCalls

\* mkdir and rmdir of a directory, and what lookup, getattr and a listing
\* see of it
\* mkdir is run with up to MaxMkdirFails of its sub-steps failing, so
\* that a failing step and the failing undo of it happen in one call
MkdirFailSets == { F \in SUBSET MkdirFails : Cardinality(F) <= MaxMkdirFails }

NextMkdir ==
    \/ \E p \in UserPaths, F \in MkdirFailSets : Mkdir(p, F)
    \/ \E p \in UserPaths, F \in FailSets(RmdirFails) : Rmdir(p, F)
    \/ Observe
    \/ List

SpecMkdir == InitDeleted /\ [][NextMkdir]_vars

---------------------------------------------------------------------------
(* Calls in flight: a name made again, or a directory removed, step by     *)
(* step, with a resolution of the same path running against it.  The       *)
(* resolution is find_file with flags 0: the probe of the whiteout, the    *)
(* probe of the read-write branch and the probe of the read-only branch    *)
(* are three calls into the underlying file system.                        *)

RecreateOps == {"create", "mkdir", "mknod", "symlink", "link"}
RecreatePaths == { <<"d">> }
RecreateSource == <<"d", "x">>
RecreateFails == {"notify_change", "hide", "unlink", "rmdir", "unlink_whiteout",
                  "create_whiteout", "unlink_wh"}

\* a call enters while no other one is in flight
MkBegin(op, p, F) ==
    /\ calls.n < MaxCalls
    /\ ~InFlight(calls.mk)
    /\ ~InFlight(calls.rs)
    /\ ParentOk(p)
    /\ op = "rmdir" => Resolve(rw, ro, p).ret = READ_WRITE /\ ResolvesToDir(p)
    /\ op = "link" => RecreateSource \in DOMAIN ro
    /\ calls' = [NoCalls EXCEPT !.mk = [NoCall EXCEPT !.pc = "find_file",
                                                      !.path = p, !.op = op,
                                                      !.F = F],
                                !.n = calls.n + 1]
    /\ pre' = rw
    /\ UNCHANGED <<ro, rw, now, last, dh>>

\* the call returns: its slot keeps the result
MkReturn(r) ==
    /\ calls' = [calls EXCEPT !.mk.pc = "done", !.mk.ret = r]
    /\ last' = [NoLast EXCEPT !.op = calls.mk.op, !.path = calls.mk.path,
                              !.ret = r, !.F = calls.mk.F]

\* the call goes on to its next step
MkGoto(pc) ==
    /\ calls' = [calls EXCEPT !.mk.pc = pc]
    /\ last' = last

\* create, mkdir, mknod, symlink, link: find_file on the target (the source
\* of link is a file of the read-only branch and resolves)
MkFindFile ==
    /\ calls.mk.pc = "find_file"
    /\ calls.mk.op \in RecreateOps
    /\ IF find_file(rw, ro, calls.mk.path, "ANY", {}, 0).ret >= 0
       THEN MkReturn(-EEXIST)
       ELSE MkGoto("find_path")
    /\ UNCHANGED <<ro, rw, now, pre, dh>>

\* can_create, which reads no file, and find_path
MkFindPath ==
    /\ calls.mk.pc = "find_path"
    /\ rw' = find_path(rw, ro, calls.mk.path, {}, now).rw
    /\ MkGoto("make")
    /\ UNCHANGED <<ro, now, pre, dh>>

\* the worker that makes the entry of the read-write branch
MkWorker(op, p) ==
    CASE op = "create" -> creat_worker(rw, p, 420, {}, now)
      [] op = "mkdir" -> mkdir_worker(rw, p, BitOr(493, S_IFDIR), {}, now)
      [] op = "mknod" -> mknod_worker(rw, p, S_IFIFO + 420, {}, now)
      [] op = "symlink" -> symlink_worker(rw, "t", p, {}, now)
      [] op = "link" ->
           symlink_worker(rw, RealStr([br |-> "ro", p |-> RecreateSource]), p,
                          {}, now)

MkMake ==
    /\ calls.mk.pc = "make"
    /\ LET made(w) ==
               IF w.ret < 0
               THEN rw' = rw /\ MkReturn(w.ret)
               ELSE /\ rw' = w.rw
                    /\ MkGoto(IF calls.mk.op = "create" THEN "notify_change"
                              ELSE IF calls.mk.op = "mkdir" THEN "hide"
                              ELSE "unlink_whiteout")
       IN made(MkWorker(calls.mk.op, calls.mk.path))
    /\ UNCHANGED <<ro, now, pre, dh>>

\* hepunion_create, lines 218-226: the owner of the new file
MkOwn ==
    /\ calls.mk.pc = "notify_change"
    /\ IF "notify_change" \in calls.mk.F \/ calls.mk.path \notin DOMAIN rw
       THEN /\ rw' = rw
            /\ calls' = [calls EXCEPT !.mk.pc = "undo", !.mk.ret = -EIO]
            /\ last' = last
       ELSE /\ rw' = Put(rw, calls.mk.path,
                         notify_change(rw[calls.mk.path], CurrentId,
                                       {"UID", "GID"}))
            /\ MkGoto("unlink_whiteout")
    /\ UNCHANGED <<ro, now, pre, dh>>

\* hepunion_mkdir, line 534: hide_directory_contents
MkHide ==
    /\ calls.mk.pc = "hide"
    /\ LET hidden(h) ==
               IF h.ret < 0
               THEN /\ rw' = rw
                    /\ calls' = [calls EXCEPT !.mk.pc = "undo", !.mk.ret = h.ret]
                    /\ last' = last
               ELSE /\ rw' = h.rw
                    /\ MkGoto("unlink_whiteout")
       IN hidden(hide_directory_contents(rw, ro, calls.mk.path, calls.mk.F, now))
    /\ UNCHANGED <<ro, now, pre, dh>>

\* hepunion_create, line 229, hepunion_mkdir, line 536: the new entry is
\* removed again and the error returned
MkUndo ==
    /\ calls.mk.pc = "undo"
    /\ rw' = IF calls.mk.op = "mkdir"
             THEN rmdir(rw, calls.mk.path, calls.mk.F).rw
             ELSE unlink(rw, calls.mk.path, "unlink", calls.mk.F).rw
    /\ MkReturn(calls.mk.ret)
    /\ UNCHANGED <<ro, now, pre, dh>>

\* the last step of the five operations: unlink_whiteout
MkUnlinkWhiteout ==
    /\ calls.mk.pc = "unlink_whiteout"
    /\ rw' = unlink_whiteout(rw, calls.mk.path, calls.mk.F).rw
    /\ MkReturn(0)
    /\ UNCHANGED <<ro, now, pre, dh>>

\* hepunion_rmdir, line 1135: find_file.  The call entered on a directory
\* of the read-write branch and no other call has written since, so this is
\* the case READ_WRITE of the switch
RdFindFile ==
    /\ calls.mk.pc = "find_file"
    /\ calls.mk.op = "rmdir"
    /\ find_file(rw, ro, calls.mk.path, "ANY", {}, 0).ret = READ_WRITE
    /\ calls' = [calls EXCEPT
                   !.mk.pc = "find_ro",
                   !.mk.real = find_file(rw, ro, calls.mk.path, "ANY", {}, 0).real]
    /\ UNCHANGED <<ro, rw, now, pre, last, dh>>

\* lines 1141-1143: has_ro
RdFindRo ==
    /\ calls.mk.pc = "find_ro"
    /\ calls' = [calls EXCEPT
                   !.mk.me = find_file(rw, ro, calls.mk.path, "MUST_READ_ONLY",
                                       {}, 0).ret >= 0,
                   !.mk.pc = "is_empty_dir"]
    /\ UNCHANGED <<ro, rw, now, pre, last, dh>>

\* lines 1146-1156: can_remove, which reads no file, and is_empty_dir
RdEmpty ==
    /\ calls.mk.pc = "is_empty_dir"
    /\ IF is_empty_dir(rw, ro, calls.mk.path,
                       IF calls.mk.me THEN [br |-> "ro", p |-> calls.mk.path]
                       ELSE NoPath,
                       calls.mk.real) < 0
       THEN MkReturn(-ENOTEMPTY)
       ELSE MkGoto(IF calls.mk.me THEN "create_whiteout" ELSE "rmdir")
    /\ UNCHANGED <<ro, rw, now, pre, dh>>

\* lines 1158-1161: the whiteout is made first; when that fails the call
\* returns what err holds, the 0 of is_empty_dir
RdWhiteout ==
    /\ calls.mk.pc = "create_whiteout"
    /\ LET made(cw) ==
               IF cw.ret < 0
               THEN rw' = rw /\ MkReturn(0)
               ELSE rw' = cw.rw /\ MkGoto("rmdir")
       IN made(create_whiteout(rw, ro, calls.mk.path, calls.mk.F, now))
    /\ UNCHANGED <<ro, now, pre, dh>>

\* lines 1163-1164: rmdir of the directory of the read-write branch
RdRmdir ==
    /\ calls.mk.pc = "rmdir"
    /\ LET removed(rd) ==
               IF rd.ret >= 0 THEN rw' = rd.rw /\ MkReturn(0)
               ELSE IF calls.mk.me
               THEN /\ rw' = rw
                    /\ calls' = [calls EXCEPT !.mk.pc = "unlink_wh",
                                              !.mk.ret = rd.ret]
                    /\ last' = last
               ELSE rw' = rw /\ MkReturn(rd.ret)
       IN removed(rmdir(rw, calls.mk.path, calls.mk.F))
    /\ UNCHANGED <<ro, now, pre, dh>>

\* lines 1165-1167: the whiteout is removed again
RdUndo ==
    /\ calls.mk.pc = "unlink_wh"
    /\ rw' = unlink(rw, path_to_special(calls.mk.path, "WH"), "unlink_wh",
                    calls.mk.F).rw
    /\ MkReturn(calls.mk.ret)
    /\ UNCHANGED <<ro, now, pre, dh>>

\* a resolution of the path of the call in flight enters
RsBegin ==
    /\ InFlight(calls.mk)
    /\ ~InFlight(calls.rs)
    /\ calls' = [calls EXCEPT !.rs = [NoCall EXCEPT !.pc = "whiteout",
                                                    !.path = calls.mk.path]]
    /\ UNCHANGED <<ro, rw, now, pre, last, dh>>

\* find_file, step 1: the whiteout
RsWhiteout ==
    /\ calls.rs.pc = "whiteout"
    /\ calls' = IF path_to_special(calls.rs.path, "WH") \in DOMAIN rw
                THEN [calls EXCEPT !.rs.pc = "done", !.rs.ret = -ENOENT]
                ELSE [calls EXCEPT !.rs.pc = "rw"]
    /\ UNCHANGED <<ro, rw, now, pre, last, dh>>

\* find_file, step 2: the read-write branch
RsRw ==
    /\ calls.rs.pc = "rw"
    /\ calls' = IF calls.rs.path \in DOMAIN rw
                THEN [calls EXCEPT !.rs.pc = "done", !.rs.ret = READ_WRITE]
                ELSE [calls EXCEPT !.rs.pc = "ro"]
    /\ UNCHANGED <<ro, rw, now, pre, last, dh>>

\* find_file, step 3: the read-only branch
RsRo ==
    /\ calls.rs.pc = "ro"
    /\ calls' = IF calls.rs.path \in DOMAIN ro
                THEN [calls EXCEPT !.rs.pc = "done", !.rs.ret = READ_ONLY]
                ELSE [calls EXCEPT !.rs.pc = "done", !.rs.ret = -ENOENT]
    /\ UNCHANGED <<ro, rw, now, pre, last, dh>>

RecreateCall ==
    \/ \E op \in RecreateOps, p \in RecreatePaths, F \in FailSets(RecreateFails) :
          MkBegin(op, p, F)
    \/ MkFindFile
    \/ MkFindPath
    \/ MkMake
    \/ MkOwn
    \/ MkHide
    \/ MkUndo
    \/ MkUnlinkWhiteout

RmdirCall ==
    \/ \E p \in RecreatePaths, F \in FailSets(RecreateFails) : MkBegin("rmdir", p, F)
    \/ RdFindFile
    \/ RdFindRo
    \/ RdEmpty
    \/ RdWhiteout
    \/ RdRmdir
    \/ RdUndo

ResolveCall ==
    \/ RsBegin
    \/ RsWhiteout
    \/ RsRw
    \/ RsRo

\* a name made again or a directory removed, with a resolution of the path
\* running against it
NextRecreate == RecreateCall \/ RmdirCall \/ ResolveCall

SpecRecreate == InitDeleted /\ [][NextRecreate]_vars

---------------------------------------------------------------------------
(* Properties *)

WhPath(p) == path_to_special(p, "WH")
MePath(p) == path_to_special(p, "ME")

LookupNotFound(rwfs, rofs, p) == hepunion_lookup(rwfs, rofs, p).dentry = "negative"

Orders == {"fwd", "rev"}

\* the names held by the list of the open handle
ListedNames == { dh.files[i].d_name : i \in 1..Len(dh.files) }

\* the last step was the readdir that built the list of the handle, and the
\* handle holds the branch paths opendir computes in the current state
FreshListing ==
    /\ last.op = "readdir" /\ last.filled /\ last.ret = 0
    /\ LET od == hepunion_opendir(rw, ro, dh.path)
       IN od.ret = 0 /\ od.ctx.rw_len = dh.rw_len /\ od.ctx.ro_len = dh.ro_len

\* C1: whiteout hides.  Whenever .wh.<name> exists in a directory of the
\* read-write branch, lookup of <name> in that directory is negative and
\* <name> is not in the list readdir builds for the directory, whatever the
\* read-only branch holds and whether or not a data file of that name exists
\* on the read-write branch.
C1_WhiteoutHides ==
    FreshListing =>
        \A w \in Children(rw, dh.path) :
            is_whiteout(w) =>
                LET n == SubSeq(w, 5, Len(w))
                IN /\ LookupNotFound(rw, ro, Append(dh.path, n))
                   /\ n \notin ListedNames

\* C2: shadowing.  getattr of a path with a data file on the read-write
\* branch (and no whiteout) returns exactly the stat of that file, whether
\* or not an ME file of the path exists.
C2_Shadowing ==
    (last.op = "getattr" /\ last.path \in DOMAIN rw
        /\ WhPath(last.path) \notin DOMAIN rw)
    => (last.ret = 0 /\ last.st = rw[last.path])

\* alterable mode bits and file-type bits of a mode
Alterable(mode) == mode % (VALID_MODES_MASK + 1)
FileType(mode) == mode \div (VALID_MODES_MASK + 1)

OnRo(rwfs, p) == Resolve(rwfs, ro, p).ret = READ_ONLY

\* C3: ME merge.  getattr of a path that resolves to the read-only branch
\* returns, when an ME file exists, the uid, gid, atime, mtime and ctime of
\* the ME file, its alterable mode bits, and the file-type bits and size of
\* the read-only file; with no ME file it returns the stat of the read-only
\* file unchanged.
C3_MeMerge ==
    (last.op = "getattr" /\ OnRo(rw, last.path)) =>
        LET p == last.path
            g == last.st
        IN /\ last.ret = 0
           /\ IF MePath(p) \in DOMAIN rw
              THEN LET m == rw[MePath(p)]
                   IN /\ g.uid = m.uid /\ g.gid = m.gid
                      /\ g.atime = m.atime /\ g.mtime = m.mtime
                      /\ g.ctime = m.ctime
                      /\ Alterable(g.mode) = Alterable(m.mode)
                      /\ FileType(g.mode) = FileType(ro[p].mode)
                      /\ g.size = ro[p].size
              ELSE g = ro[p]

\* getattr of a directory of the read-only branch whose ME file differs from
\* it in owner and mode
C3_Witness ==
    /\ last.op = "getattr" /\ OnRo(rw, last.path) /\ last.ret = 0
    /\ MePath(last.path) \in DOMAIN rw
    /\ IsDirMode(ro[last.path].mode)
    /\ rw[MePath(last.path)].uid # ro[last.path].uid
    /\ Alterable(rw[MePath(last.path)].mode) # Alterable(ro[last.path].mode)

\* C4: unlink removes the name from the union.  When the path resolved and
\* unlink returned 0, lookup of the path is negative, its name is in no
\* listing of its parent, and its whiteout exists if the read-only branch
\* holds the path; when the path did not resolve, unlink returns -ENOENT and
\* the read-write branch is as before.
C4_UnlinkRemoves ==
    (last.op = "unlink") =>
        LET p == last.path
        IN IF Resolve(pre, ro, p).ret >= 0
           THEN (last.ret = 0) =>
                   /\ LookupNotFound(rw, ro, p)
                   /\ \A o \in Orders : Base(p) \notin Listing(rw, ro, Parent(p), o, o)
                   /\ (p \in DOMAIN ro => WhPath(p) \in DOMAIN rw)
           ELSE last.ret = -ENOENT /\ rw = pre

\* a successful unlink of a file the read-only branch holds
C4_Witness ==
    /\ last.op = "unlink" /\ last.ret = 0
    /\ Resolve(pre, ro, last.path).ret >= 0
    /\ last.path \in DOMAIN ro

\* entries of the merged view of a directory: those of the read-write branch
\* and those of the read-only branch no whiteout covers, reserved names
\* excluded
MergedView(rwfs, rofs, p) ==
    { n \in Children(rwfs, p) : ~is_me(n) /\ ~is_whiteout(n) }
    \cup { n \in Children(rofs, p) :
             ~is_me(n) /\ ~is_whiteout(n) /\ (".wh." \o n) \notin Children(rwfs, p) }

DirBefore(p) ==
    LET r == Resolve(pre, ro, p)
    IN r.ret >= 0 /\ IsDirMode(LstatReal(pre, ro, r.real).st.mode)

\* C5: rmdir emptiness over the merged view.  rmdir of a directory the caller
\* may remove fails with -ENOTEMPTY and changes nothing when the merged view
\* of the directory holds an entry; with no injected failure, a directory
\* whose merged view is empty is not refused as non-empty.
C5_RmdirEmptiness ==
    (last.op = "rmdir" /\ DirBefore(last.path) /\ "can_remove" \notin last.F) =>
        IF MergedView(pre, ro, last.path) # {}
        THEN last.ret = -ENOTEMPTY /\ rw = pre
        ELSE (last.F = {}) => last.ret # -ENOTEMPTY

\* C6: rmdir reports success only when the directory is gone.  After rmdir
\* of a directory returned 0 lookup of it is negative, and rmdir returns a
\* negative errno whenever the directory still resolves.
C6_RmdirSuccessGone ==
    (last.op = "rmdir" /\ DirBefore(last.path)) =>
        /\ (last.ret = 0) => LookupNotFound(rw, ro, last.path)
        /\ (~LookupNotFound(rw, ro, last.path)) => last.ret < 0

\* C7: round trip.  After setattr of a path that resolved to the read-only
\* branch returned 0, getattr of the path returns the requested value of
\* every requested attribute.
C7_SetattrRoundTrip ==
    (last.op = "setattr" /\ OnRo(pre, last.path) /\ last.ret = 0) =>
        LET g == hepunion_getattr(rw, ro, last.path)
            a == UserAttr(0)
        IN /\ g.ret = 0
           /\ ("MODE" \in last.valid) => Alterable(g.st.mode) = a.mode
           /\ ("UID" \in last.valid) => g.st.uid = a.uid
           /\ ("GID" \in last.valid) => g.st.gid = a.gid
           /\ ("ATIME" \in last.valid) => g.st.atime = a.atime
           /\ ("MTIME" \in last.valid) => g.st.mtime = a.mtime

\* C8: metadata changes never copy data.  After setattr of a path that
\* resolved to the read-only branch returned 0, the ME file of the path
\* exists, the read-write branch holds no data file of the path, and the
\* path still resolves to the read-only branch.
C8_SetattrNoCopy ==
    (last.op = "setattr" /\ OnRo(pre, last.path) /\ last.ret = 0) =>
        /\ MePath(last.path) \in DOMAIN rw
        /\ last.path \notin DOMAIN rw
        /\ last.path \in DOMAIN ro
        /\ OnRo(rw, last.path)

\* a successful change of mode of a file of the read-only branch with no ME
\* file before
C8_Witness ==
    /\ last.op = "setattr" /\ OnRo(pre, last.path) /\ last.ret = 0
    /\ "MODE" \in last.valid
    /\ MePath(last.path) \notin DOMAIN pre
    /\ ~IsDirMode(ro[last.path].mode)

C10_ReservedInvisible ==
    (last.op = "readdir" /\ last.ret = 0 /\ last.emitted # NoEntry) =>
        ~is_me(last.emitted.d_name) /\ ~is_whiteout(last.emitted.d_name)

\* the names of directory dir that exist on both branches and are neither
\* ME files nor whiteouts
OnBothBranches(dir) ==
    { n \in Children(rw, dir) \cap Children(ro, dir) : ~is_me(n) /\ ~is_whiteout(n) }

\* C11: dedup.  The list of entries readdir builds never holds the same
\* basename twice; a name that exists in the directory on both branches is
\* listed once, with the type of the entry of the read-write branch.
C11_Dedup ==
    /\ \A i, j \in 1..Len(dh.files) :
           dh.files[i].d_name = dh.files[j].d_name => i = j
    /\ FreshListing =>
           \A n \in OnBothBranches(dh.path) :
               /\ Cardinality({ i \in 1..Len(dh.files) : dh.files[i].d_name = n }) = 1
               /\ \A i \in 1..Len(dh.files) :
                      dh.files[i].d_name = n =>
                          dh.files[i].type = DType(rw[Append(dh.path, n)])

\* a fresh list of a directory in which a name exists on both branches
C11_Witness ==
    /\ FreshListing
    /\ OnBothBranches(dh.path) # {}
    /\ OnBothBranches(dh.path) \subseteq ListedNames

MakeOps == {"create", "mkdir", "mknod", "symlink", "link"}

IsReserved(p) == p # <<>> /\ (is_me(Base(p)) \/ is_whiteout(Base(p)))

\* C12: reserved-name refusal.  create, mkdir, mknod, symlink and link on a
\* target whose basename starts with ".me." or ".wh." return -EINVAL and
\* leave the read-write branch as it was (no operation writes the read-only
\* branch).
C12_ReservedRefusal ==
    (last.op \in MakeOps /\ IsReserved(last.path))
    => (last.ret = -EINVAL /\ rw = pre)

\* C13: re-creation clears the whiteout.  Whenever create, mkdir, mknod,
\* symlink or link returns 0 for a target, no whiteout of the target is left
\* on the read-write branch and lookup of the target finds the new entry of
\* the read-write branch, also when the target was whited-out before.
C13_RecreateClearsWhiteout ==
    (last.op \in MakeOps /\ last.ret = 0)
    => /\ WhPath(last.path) \notin DOMAIN rw
       /\ Resolve(rw, ro, last.path).ret = READ_WRITE
       /\ ~LookupNotFound(rw, ro, last.path)

\* the target of the last operation resolved, before the call, to an entry
\* on one of the branches (so it was not whited-out)
TargetExisted == Resolve(pre, ro, last.path).ret >= 0

\* C14: existing target refusal.  create, mkdir, mknod, symlink and link
\* return -EEXIST, create nothing and remove no whiteout whenever the
\* target resolves to an entry of either branch that is not whited-out.
C14_ExistingRefused ==
    (last.op \in MakeOps /\ TargetExisted)
    => (last.ret = -EEXIST /\ rw = pre)

\* a creating operation refused a target that exists on the read-only
\* branch alone
C14_Witness ==
    /\ last.op \in MakeOps /\ TargetExisted /\ last.ret = -EEXIST
    /\ last.path \in DOMAIN ro
    /\ last.path \notin DOMAIN pre

\* what link made for a source that resolved to the given branch
LinkMade(kind, root) ==
    /\ last.made = [kind |-> kind, from |-> root \o PathStr(last.from),
                    to |-> RwRoot \o PathStr(last.path)]
    /\ last.path \in DOMAIN rw

\* C15: link branch rule.  After link(old, new) returned 0: if old resolved
\* to the read-only branch, new's path on the read-write branch is a
\* symlink to old's path on the read-only branch; if old resolved to the
\* read-write branch, it is a hard link to old's file there; in both cases
\* no whiteout of new exists.
C15_LinkBranchRule ==
    (last.op = "link" /\ last.ret = 0)
    => /\ Resolve(pre, ro, last.from).ret = READ_ONLY
              => /\ LinkMade("symlink", RoRoot)
                 /\ FileType(rw[last.path].mode) = FileType(S_IFLNK)
       /\ Resolve(pre, ro, last.from).ret = READ_WRITE
              => /\ LinkMade("link", RwRoot)
                 /\ rw[last.path] = rw[last.from]
       /\ WhPath(last.path) \notin DOMAIN rw

\* the last operation was an open for writing that copied the file up and
\* then failed
FailedOpenAfterCopyup ==
    /\ last.op = "open" /\ last.write
    /\ last.origin = READ_WRITE_COPYUP
    /\ last.ret < 0

\* C16: failed open reverts its copy-up.  When an open for writing copied
\* the file up and then the can_create check or the open of the copy
\* failed, open returns that error, the copy no longer exists on the
\* read-write branch, the path resolves to the read-only branch again and
\* getattr returns what it returned before the open.
C16_FailedOpenReverts ==
    FailedOpenAfterCopyup
    => /\ last.ret = (IF "can_create" \in last.F THEN -EACCES ELSE -EIO)
       /\ last.path \notin DOMAIN rw
       /\ Resolve(rw, ro, last.path).ret = READ_ONLY
       /\ hepunion_getattr(rw, ro, last.path) = hepunion_getattr(pre, ro, last.path)

\* which of a whiteout, a data file and an ME file of logical path p the
\* read-write branch holds
RwStates(rwfs, p) ==
    { k \in {"whiteout", "data", "me"} :
        \/ k = "whiteout" /\ WhPath(p) \in DOMAIN rwfs
        \/ k = "data" /\ p \in DOMAIN rwfs
        \/ k = "me" /\ MePath(p) \in DOMAIN rwfs }

\* C17: single authoritative state.  In every state reached by completed
\* operations, failed ones and ones with a failed sub-step included, the
\* read-write branch holds at most one of a whiteout, a data file and an ME
\* file for any logical path.
C17_SingleState ==
    \A p \in UserPaths : Cardinality(RwStates(rw, p)) <= 1

\* C18: failed setattr is invisible.  If setattr on a path that resolves to
\* the read-only branch returns an error, getattr of the path returns what
\* it returned before the call, and no ME file exists that did not exist
\* before.
C18_FailedSetattrInvisible ==
    (last.op = "setattr" /\ last.ret < 0 /\ OnRo(pre, last.path))
    => /\ hepunion_getattr(rw, ro, last.path) = hepunion_getattr(pre, ro, last.path)
       /\ MePath(last.path) \in DOMAIN rw => MePath(last.path) \in DOMAIN pre

\* the last operation was an unlink or rmdir of a path on the read-only
\* branch with an ME file, and it went as far as the unlink of the ME file
\* (hepunion_rmdir goes on from its permission test when can_remove does not
\* return 0)
ReachedMeUnlink ==
    /\ last.op \in {"unlink", "rmdir"}
    /\ OnRo(pre, last.path)
    /\ MePath(last.path) \in DOMAIN pre
    /\ IF last.op = "unlink" THEN can_remove(last.F) = 0
       ELSE /\ can_remove(last.F) # 0
            /\ is_empty_dir(pre, ro, last.path, [br |-> "ro", p |-> last.path],
                            NoPath) = 0

SameAttributes(a, b) ==
    /\ a.ret = b.ret
    /\ \A f \in {"uid", "gid", "atime", "mtime", "ctime", "mode"} : a.st[f] = b.st[f]

\* C19: rollback of the ME file in unlink and rmdir.  For a path on the
\* read-only branch with an ME file: if the ME file was unlinked and the
\* creation of the whiteout failed, the operation returns the error of the
\* whiteout, no whiteout exists and the ME file exists again, so that
\* getattr returns the uid, gid, atime, mtime, ctime and mode of before; if
\* the unlink of the ME file failed, the error is returned and no whiteout
\* is created.
C19_MeRollback ==
    /\ (ReachedMeUnlink /\ "unlink_me" \notin last.F /\ "create_whiteout" \in last.F)
       => /\ last.ret = -EIO
          /\ WhPath(last.path) \notin DOMAIN rw
          /\ MePath(last.path) \in DOMAIN rw
          /\ SameAttributes(hepunion_getattr(rw, ro, last.path),
                            hepunion_getattr(pre, ro, last.path))
    /\ (ReachedMeUnlink /\ "unlink_me" \in last.F)
       => /\ last.ret = -EIO
          /\ WhPath(last.path) \notin DOMAIN rw

\* C20: no scratch buffer outlives its operation.  When an operation or a
\* readdir with its callbacks has returned, whether with 0 or with an
\* error, every path buffer it allocated has been freed.
C20_NoLiveBuffers == last.live = 0

\* C21: round trip L2.  create_me with stat s followed by find_me on the
\* same path yields a stat whose uid, gid, atime, mtime and ctime are those
\* of s and whose alterable mode bits are s.mode & VALID_MODES_MASK.
C21_CreateFindRoundTrip ==
    (last.op = "create_me" /\ last.ret = 0)
    => /\ find_me(rw, last.path).ret = 0
       /\ \A f \in {"uid", "gid", "atime", "mtime", "ctime"} :
              find_me(rw, last.path).kstbuf[f] = last.st[f]
       /\ Alterable(find_me(rw, last.path).kstbuf.mode)
              = BitAnd(last.st.mode, VALID_MODES_MASK)

\* a setattr and an unlink of the same path ran against each other and both
\* have returned; the path was on the read-only branch alone when they began
RaceOver ==
    /\ calls.raced
    /\ calls.sa.pc = "done" /\ calls.ul.pc = "done"
    /\ calls.sa.path = calls.ul.path
    /\ Resolve(pre, ro, calls.sa.path).ret = READ_ONLY

SetattrThenUnlink(rwfs, p, valid, t) ==
    hepunion_unlink(hepunion_setattr(rwfs, ro, p, UserAttr(t), valid, {}, t).rw,
                    ro, p, {}, t).rw

UnlinkThenSetattr(rwfs, p, valid, t) ==
    hepunion_setattr(hepunion_unlink(rwfs, ro, p, {}, t).rw,
                     ro, p, UserAttr(t), valid, {}, t).rw

\* C22: racing setattr and unlink.  For a path P of the read-only branch
\* alone, every interleaving of the steps of a concurrent setattr(P) and
\* unlink(P) ends in the state that running the two calls one after the
\* other, in one of the two orders, produces; and once unlink has succeeded
\* no ME file of P remains on the read-write branch next to the whiteout.
C22_RaceSerialisable ==
    RaceOver
    => /\ rw \in { SetattrThenUnlink(pre, calls.sa.path, calls.sa.valid, now),
                   UnlinkThenSetattr(pre, calls.sa.path, calls.sa.valid, now) }
       /\ calls.ul.ret = 0
          => ~(MePath(calls.ul.path) \in DOMAIN rw
               /\ WhPath(calls.ul.path) \in DOMAIN rw)

\* the names of the list of the open handle, in the order readdir emits them
ListedSeq == [i \in 1..Len(dh.files) |-> dh.files[i].d_name]

\* the entries of the read-write directory, then the entries of the read-only
\* directory that survive, each in the order its branch reports them
RwThenRo(rw_ord, ro_ord) ==
    LET rw_all == IF dh.rw_len # 0 THEN DirEntries(rw, dh.path, rw_ord) ELSE <<>>
        ro_all == IF dh.ro_len # 0 THEN DirEntries(ro, dh.path, ro_ord) ELSE <<>>
        rw_names == { rw_all[i].name : i \in 1..Len(rw_all) }
        shown(e) == ~is_me(e.name) /\ ~is_whiteout(e.name)
        survives(e) == (".wh." \o e.name) \notin rw_names /\ e.name \notin rw_names
        names(sq) == [i \in 1..Len(sq) |-> sq[i].name]
    IN names(SelectSeq(rw_all, shown)) \o names(SelectSeq(ro_all, survives))

\* C23: listing order.  The sequence a directory handle emits is all the
\* entries of the read-write directory in the order the read-write branch
\* reports them, followed by the surviving entries of the read-only directory
\* in the order the read-only branch reports them.
C23_ListingOrder ==
    (last.op = "readdir" /\ last.filled /\ last.ret = 0)
    => \E rw_ord \in Orders, ro_ord \in Orders :
           ListedSeq = RwThenRo(rw_ord, ro_ord)

\* the read-write branch as it may be when the next readdir of the handle
\* runs: unchanged, or with one more file created under the directory
LaterBranches ==
    {rw} \cup { hepunion_create(rw, ro, p, 420, {}, now).rw : p \in UserPaths }

\* C24: a handle is populated exactly once.  The list of a directory handle
\* is built only during its first readdir; a later readdir of the handle
\* does not read the branches again and adds or removes no entry, it only
\* moves the cursor, whatever has changed on the branches since, and also
\* when the first readdir built an empty list.
C24_PopulatedOnce ==
    (last.op = "readdir" /\ last.ret = 0 /\ dh.open)
    => \A rw2 \in LaterBranches, ord \in Orders :
           LET later(rd) == ~rd.filled /\ rd.ctx.files = dh.files
           IN later(hepunion_readdir(rw2, ro, dh, ord, ord, {}))

\* rmdir was called on a directory that resolved to the read-only branch and
\* whose merged view was empty
RmdirOfEmptyRo ==
    /\ last.op = "rmdir"
    /\ OnRo(pre, last.path) /\ DirBefore(last.path)
    /\ MergedView(pre, ro, last.path) = {}

\* C25: rmdir of an empty directory of the read-only branch.  When can_remove
\* returns 0 the call creates the whiteout and returns 0 (no later step
\* failing); when can_remove returns a negative errno the call returns that
\* errno, creates no whiteout and removes no ME file.
C25_RmdirRoPermission ==
    RmdirOfEmptyRo
    => /\ (last.F = {}) => (last.ret = 0 /\ WhPath(last.path) \in DOMAIN rw)
       /\ ("can_remove" \in last.F)
          => /\ last.ret = -EACCES
             /\ WhPath(last.path) \notin DOMAIN rw
             /\ (MePath(last.path) \in DOMAIN pre
                 => MePath(last.path) \in DOMAIN rw)

\* rmdir was called on a directory that resolved to the read-write branch and
\* whose merged view was empty
RmdirOfEmptyRw ==
    /\ last.op = "rmdir"
    /\ Resolve(pre, ro, last.path).ret \in {READ_WRITE, READ_WRITE_COPYUP}
    /\ DirBefore(last.path)
    /\ MergedView(pre, ro, last.path) = {}

\* C26: rmdir of an empty directory of the read-write branch does all or
\* nothing.  (a) When the directory is on the read-only branch as well and
\* the whiteout cannot be created, the call returns a negative errno and the
\* read-write directory still exists.  (b) When removing the read-write
\* directory fails, the call returns that error, the whiteout this call
\* created is removed again and no other file is unlinked.  After any failed
\* rmdir the path still resolves to the read-write directory.
C26_RmdirRwAllOrNothing ==
    RmdirOfEmptyRw
    => /\ (last.path \in DOMAIN ro /\ "create_whiteout" \in last.F)
          => (last.ret < 0 /\ IsDir(rw, last.path))
       /\ ("rmdir" \in last.F)
          => /\ last.ret = -EIO
             /\ WhPath(last.path) \notin DOMAIN pre
                => WhPath(last.path) \notin DOMAIN rw
             /\ DOMAIN pre \subseteq DOMAIN rw
       /\ (last.ret < 0)
          => /\ Resolve(rw, ro, last.path).ret = READ_WRITE
             /\ IsDir(rw, last.path)

\* setattr created the ME file of a path of the read-only branch
MeCreatedBySetattr ==
    /\ last.op = "setattr" /\ last.ret = 0
    /\ OnRo(pre, last.path)
    /\ MePath(last.path) \notin DOMAIN pre
    /\ last.valid # {}

\* C27: ME creation fills the fields not requested from the read-only file.
\* For a path of the read-only branch with no ME file and every non-empty
\* set S of mode, uid, gid, atime, mtime (one of the two times alone or one
\* of the two owners alone included), after a successful setattr of S the
\* merged getattr returns the requested value of every field in S and the
\* value of the read-only file for every field not in S.
C27_MeCreationFills ==
    MeCreatedBySetattr
    => LET a == UserAttr(0)
           r == ro[last.path]
           want(f, req, old) == IF f \in last.valid THEN req ELSE old
           merged(g) ==
               /\ g.ret = 0
               /\ Alterable(g.st.mode) = want("MODE", a.mode, Alterable(r.mode))
               /\ g.st.uid = want("UID", a.uid, r.uid)
               /\ g.st.gid = want("GID", a.gid, r.gid)
               /\ g.st.atime = want("ATIME", a.atime, r.atime)
               /\ g.st.mtime = want("MTIME", a.mtime, r.mtime)
       IN merged(hepunion_getattr(rw, ro, last.path))

\* setattr was called on a path of the read-only branch that had an ME file
MeUpdatedBySetattr ==
    /\ last.op = "setattr"
    /\ OnRo(pre, last.path)
    /\ MePath(last.path) \in DOMAIN pre

\* C28: updating an existing ME file touches only the requested fields.
\* With the request restricted to mode, uid, gid, atime and mtime, a
\* successful setattr over an existing ME file changes the requested fields
\* of the ME file and leaves its other fields, and every other file, as they
\* were; a request selecting none of the five returns 0 and leaves the ME
\* file unchanged.
C28_MeUpdateFrame ==
    MeUpdatedBySetattr
    => LET me == MePath(last.path)
           old == pre[me]
           a == UserAttr(0)
           S == last.valid \cap {"MODE", "UID", "GID", "ATIME", "MTIME"}
           want(f, req, was) == IF f \in S THEN req ELSE was
       IN /\ (last.ret = 0)
             => /\ DOMAIN rw = DOMAIN pre
                /\ \A q \in DOMAIN pre \ {me} : rw[q] = pre[q]
                /\ Alterable(rw[me].mode)
                       = want("MODE", a.mode, Alterable(old.mode))
                /\ FileType(rw[me].mode) = FileType(old.mode)
                /\ rw[me].uid = want("UID", a.uid, old.uid)
                /\ rw[me].gid = want("GID", a.gid, old.gid)
                /\ rw[me].atime = want("ATIME", a.atime, old.atime)
                /\ rw[me].mtime = want("MTIME", a.mtime, old.mtime)
                /\ rw[me].ctime = old.ctime
                /\ rw[me].size = old.size
          /\ (S = {} /\ "open" \notin last.F) => (last.ret = 0 /\ rw = pre)

\* a request for gid and ctime changed an existing ME file, whose ctime is
\* not the one requested
C28_Witness ==
    /\ MeUpdatedBySetattr
    /\ last.ret = 0
    /\ last.valid = {"GID", "CTIME"}
    /\ rw # pre
    /\ rw[MePath(last.path)].ctime # UserAttr(now - 1).ctime

\* create_me or set_me was called, with no step failing, for a path that had
\* no ME file and whose parent directory the read-write branch did not hold
MeWithoutRwParent ==
    /\ last.op \in {"create_me", "set_me"}
    /\ last.F = {}
    /\ MePath(last.path) \notin DOMAIN pre
    /\ ~IsDir(pre, Parent(last.path))

\* C29: ME creation materialises the parent chain.  Both create_me and
\* set_me, when the parent directory of the ME path does not exist on the
\* read-write branch, first create the missing read-write directories and
\* then create the ME file.
C29_MeParentChain ==
    MeWithoutRwParent
    => /\ last.ret = 0
       /\ IsDir(rw, Parent(last.path))
       /\ MePath(last.path) \in DOMAIN rw

\* one readdir call: the entry at f_pos is emitted and f_pos advances by one,
\* or f_pos is at or past the end of the list and nothing is emitted
CursorStep ==
    (last'.op = "readdir" /\ last'.ret = 0 /\ dh.open)
    => IF dh.f_pos < Len(dh'.files)
       THEN last'.emitted = dh'.files[dh.f_pos + 1] /\ dh'.f_pos = dh.f_pos + 1
       ELSE last'.emitted = NoEntry /\ dh'.f_pos = dh.f_pos

\* the handle has just reported the end of the list
EofReported ==
    last.op = "readdir" /\ last.ret = 0 /\ last.emitted = NoEntry /\ dh.open

\* every later readdir of the handle reports the end of the list again
EofAgain ==
    \A rw2 \in LaterBranches, ord \in Orders :
        LET eof(rd) == rd.ret = 0 /\ rd.emitted = NoEntry
        IN eof(hepunion_readdir(rw2, ro, dh, ord, ord, {}))

\* C30: the readdir cursor.  Each call emits at most one entry, the one at
\* f_pos, and increments f_pos by exactly one when it emits; with f_pos at or
\* past the length of the list it emits nothing and returns 0; so repeated
\* readdir from f_pos = 0 emits every entry once and then reports the end of
\* the list for ever.
C30_ReaddirCursor ==
    /\ [][CursorStep]_vars
    /\ [](EofReported => EofAgain)

\* mkdir was called on a path that did not resolve, whose whiteout the
\* read-write branch held and at which the read-only branch has a directory
\* with entries
MkdirOverDeleted ==
    /\ last.op = "mkdir"
    /\ WhPath(last.path) \in DOMAIN pre
    /\ LookupNotFound(pre, ro, last.path)
    /\ IsDir(ro, last.path)
    /\ Children(ro, last.path) # {}

\* the mkdir reached hide_directory_contents, which failed: no earlier step
\* of the call failed and the read-write directory did not exist before
HideFailed ==
    /\ "hide" \in last.F
    /\ last.F \cap {"can_create", "find_path", "mkdir"} = {}
    /\ last.path \notin DOMAIN pre

\* C31: mkdir over a deleted directory of the read-only branch yields an
\* empty directory.  When P is whited-out and the read-only branch holds a
\* directory P with children, after a successful mkdir(P) no listing of P
\* holds a child of the read-only directory, and the new directory holds a
\* whiteout of every such child, whether or not the whiteout of P is gone
\* yet; when hiding the children fails the new read-write directory is
\* removed, the whiteout of P stays and the error is returned.
C31_MkdirOverDeleted ==
    MkdirOverDeleted
    => /\ (last.ret = 0)
          => /\ \A rw_ord \in Orders, ro_ord \in Orders :
                    Listing(rw, ro, last.path, rw_ord, ro_ord)
                        \cap Children(ro, last.path) = {}
             /\ IsDir(rw, last.path)
             /\ \A n \in Children(ro, last.path) :
                    WhPath(Append(last.path, n)) \in DOMAIN rw
       /\ HideFailed
          => /\ last.ret = -EIO
             /\ last.path \notin DOMAIN rw
             /\ WhPath(last.path) \in DOMAIN rw

\* mkdir over the whiteout of a read-only directory with children succeeded:
\* the whiteout is gone and the new directory resolves
C31_Witness ==
    /\ MkdirOverDeleted
    /\ last.ret = 0
    /\ WhPath(last.path) \notin DOMAIN rw
    /\ Resolve(rw, ro, last.path).ret = READ_WRITE

\* C32: the read-only branch is never modified: no operation (create, mkdir,
\* mknod, symlink, link, unlink, rmdir, setattr, open with any flags,
\* readdir) changes the set of files of the read-only branch or the
\* attributes or the length of one of them; in particular an open with the
\* access mode O_RDONLY leaves the read-only file as it is whatever other
\* flags are passed.
C32_RoNeverModified == [][ro' = ro]_vars

\* a creating operation was called on a target that did not resolve (and,
\* for link, with a source that did) while the host denies the creation
CreationDenied ==
    /\ last.op \in MakeOps
    /\ ~TargetExisted
    /\ last.op = "link" => Resolve(pre, ro, last.from).ret >= 0
    /\ "can_create" \in last.F

\* C33: every creating operation is permission-checked: when can_create
\* denies the target, each of create, mkdir, mknod, symlink and link returns
\* that error and the target has not been created on the read-write branch.
C33_CreationChecked ==
    CreationDenied
    => /\ last.ret = -EACCES
       /\ last.path \in DOMAIN rw => last.path \in DOMAIN pre

\* the setattr in flight is the first one of a file of the read-only branch:
\* when it was called the path resolved there and had no ME file
FirstSetattrInFlight ==
    /\ InFlight(calls.sa)
    /\ Resolve(pre, ro, calls.sa.path).ret = READ_ONLY
    /\ MePath(calls.sa.path) \notin DOMAIN pre

\* what getattr returns for the path of the setattr in flight before that
\* setattr, and after it when it runs alone
AttrBefore == hepunion_getattr(pre, ro, calls.sa.path)
AttrAfter ==
    hepunion_getattr(hepunion_setattr(pre, ro, calls.sa.path, UserAttr(now),
                                      calls.sa.valid, {}, now).rw,
                     ro, calls.sa.path)

\* C34: getattr never observes a half-built ME: a getattr of P that runs
\* while the first setattr of P (a file of the read-only branch without ME
\* file) is in flight returns the attributes P had before the setattr or
\* those it has once the setattr is complete, never those of an ME file
\* that was created and not yet given its attributes.
C34_GetattrSeesNoHalfMe ==
    (FirstSetattrInFlight /\ last.op = "getattr" /\ last.path = calls.sa.path)
    => \/ [ret |-> last.ret, st |-> last.st] = AttrBefore
       \/ [ret |-> last.ret, st |-> last.st] = AttrAfter

\* the call in flight or returned makes a name again that a whiteout hid on
\* the read-only branch when the call entered
RecreatesDeleted ==
    /\ calls.mk.op \in RecreateOps
    /\ WhPath(calls.mk.path) \in DOMAIN pre
    /\ calls.mk.path \in DOMAIN ro

\* the call in flight or returned removes a directory of the read-write
\* branch that the read-only branch holds as well
RemovesShadowing ==
    /\ calls.mk.op = "rmdir"
    /\ IsDir(pre, calls.mk.path)
    /\ IsDir(ro, calls.mk.path)
    /\ WhPath(calls.mk.path) \notin DOMAIN pre

\* a resolution that entered during the call has returned
Resolved == calls.rs.pc = "done" /\ calls.rs.path = calls.mk.path

\* C35: a deleted entry of the read-only branch never resurfaces: a
\* resolution of P that runs against a create, mkdir, mknod, symlink or link
\* of P, P being whited-out on the read-only branch, or against the rmdir of
\* a read-write directory P that shadows a read-only one, returns not found
\* or the entry of the read-write branch, never the read-only entry.
C35_NeverResurfaces ==
    (Resolved /\ (RecreatesDeleted \/ RemovesShadowing))
    => calls.rs.ret # READ_ONLY

============================================================================
